---- MODULE Spec2Model ----
(***************************************************************************)
(* eVTOL fleet simulation: the per-vehicle state machine                   *)
(* (src/src/vehicle.cpp) and the charger scheduler / simulation loop       *)
(* (src/src/simulation.cpp).                                               *)
(*                                                                         *)
(* The program computes on doubles.  The model computes on exact           *)
(* rationals <<numerator, denominator>> in lowest terms, so that "equal    *)
(* within a small numerical tolerance" becomes equality.                   *)
(***************************************************************************)
EXTENDS Integers, Naturals, Sequences, FiniteSets, TLC

VARIABLES
    numVehicles,        \* Simulation::numVehicles
    simHours,           \* Simulation::simHours
    numChargers,        \* Simulation::numChargers
    simTimeStepSeconds, \* Simulation::simTimeStepSeconds
    randomizeVehicles,  \* Simulation::randomizeVehicles
    currentTime,        \* Simulation::currentTime
    timeStep,           \* Simulation::timeStep
    stepCount,          \* Simulation::stepCount
    vehicles,           \* Simulation::vehicles (the fleet, insertion order)
    chargingQueue,      \* Simulation::chargingQueue (FIFO of vehicle references)
    queuedVehicles,     \* Simulation::queuedVehicles (membership set)
    chargingStations,   \* Simulation::chargingStations (NULL = available)
    typeStats,          \* Simulation::typeStats
    lastState,          \* the static map lastState of updateVehicleStats
    pc,                 \* position inside runSimulation / the test driver
    lastCall,           \* the operation performed by the last step and its arguments
    enqueued,           \* history: every vehicle appended to chargingQueue, in order,
                        \* with the stepCount of the tick that appended it
    started,            \* history: every vehicle the scheduler started charging, in
                        \* order, with the stepCount of the tick that started it
    calls               \* number of public Vehicle operations performed by the driver

vars == <<numVehicles, simHours, numChargers, simTimeStepSeconds, randomizeVehicles,
          currentTime, timeStep, stepCount, vehicles, chargingQueue, queuedVehicles,
          chargingStations, typeStats, lastState, pc, lastCall, enqueued, started, calls>>

configVars == <<numVehicles, simHours, numChargers, simTimeStepSeconds, randomizeVehicles>>
schedulerVars == <<chargingQueue, queuedVehicles, chargingStations>>
historyVars == <<enqueued, started>>

----------------------------------------------------------------------------
(* Bounds of the model *)

MaxVehicles == 2
MaxChargers == 2
MaxSimHours == 2
MaxCalls == 3

----------------------------------------------------------------------------
(* Exact rational arithmetic standing for the program's double arithmetic *)

Abs(n) == IF n < 0 THEN -n ELSE n

RECURSIVE GCD(_, _)
GCD(a, b) == IF b = 0 THEN a ELSE GCD(b, a % b)

Norm(n, d) ==
    LET s == IF d < 0 THEN -1 ELSE 1
        g == GCD(Abs(n), Abs(d))
    IN  <<(s * n) \div g, (s * d) \div g>>

R(n) == <<n, 1>>
Zero == <<0, 1>>
Half == <<1, 2>>

\* Common factors are cancelled before multiplying, so that the products
\* stay within the integers TLC computes with
RAdd(a, b) ==
    Norm(a[1] * (b[2] \div GCD(a[2], b[2])) + b[1] * (a[2] \div GCD(a[2], b[2])),
         (a[2] \div GCD(a[2], b[2])) * b[2])
RSub(a, b) == RAdd(a, <<-b[1], b[2]>>)
RMul(a, b) ==
    Norm((a[1] \div GCD(Abs(a[1]), b[2])) * (b[1] \div GCD(Abs(b[1]), a[2])),
         (a[2] \div GCD(Abs(b[1]), a[2])) * (b[2] \div GCD(Abs(a[1]), b[2])))
RDiv(a, b) == RMul(a, Norm(b[2], b[1]))
RLt(a, b) ==
    a[1] * (b[2] \div GCD(a[2], b[2])) < b[1] * (a[2] \div GCD(a[2], b[2]))
RLe(a, b) ==
    a[1] * (b[2] \div GCD(a[2], b[2])) <= b[1] * (a[2] \div GCD(a[2], b[2]))
RGt(a, b) == RLt(b, a)
RGe(a, b) == RLe(b, a)
RMin(a, b) == IF RLt(b, a) THEN b ELSE a
RMax(a, b) == IF RLt(a, b) THEN b ELSE a

----------------------------------------------------------------------------
(* Program constants *)

NULL == 0
NUM_VEHICLE_TYPES == 5
SECONDS_TO_HOURS == <<1, 3600>>

\* level <= EPSILON, EPSILON = 1e-10.  Every quantity of the model is a
\* rational whose denominator is below 2^31, so a positive one is above
\* 1e-10: a level is <= EPSILON exactly when it is <= 0.
atMostEpsilon(level) == level[1] <= 0

States == {"Ready", "Flying", "Queued", "Charging", "Faulted"}
Manufacturers == <<"Alpha", "Bravo", "Charlie", "Delta", "Echo">>

ZeroStats ==
    [flightTime |-> Zero, queuedTime |-> Zero, distanceTraveled |-> Zero,
     chargingTime |-> Zero, faultedTime |-> Zero, faults |-> 0,
     passengerMiles |-> Zero]

\* VehicleStats::add
StatsAdd(a, b) ==
    [flightTime |-> RAdd(a.flightTime, b.flightTime),
     queuedTime |-> RAdd(a.queuedTime, b.queuedTime),
     distanceTraveled |-> RAdd(a.distanceTraveled, b.distanceTraveled),
     chargingTime |-> RAdd(a.chargingTime, b.chargingTime),
     faultedTime |-> RAdd(a.faultedTime, b.faultedTime),
     faults |-> a.faults + b.faults,
     passengerMiles |-> RAdd(a.passengerMiles, b.passengerMiles)]

\* Vehicle::Vehicle: always starts Ready with a full battery and zeroed statistics
Vehicle(manufacturer, cruiseSpeed, batteryCapacity, timeToCharge, energyUsePerMile, passengerCount, faultProbability) ==
    [manufacturer |-> manufacturer,
     cruiseSpeed |-> cruiseSpeed,
     batteryCapacity |-> batteryCapacity,
     timeToCharge |-> timeToCharge,
     energyUsePerMile |-> energyUsePerMile,
     passengerCount |-> passengerCount,
     faultProbability |-> faultProbability,
     currentState |-> "Ready",
     batteryLevel |-> batteryCapacity,
     stepStats |-> ZeroStats,
     totalStats |-> ZeroStats]

AlphaCompanyVehicle == Vehicle("Alpha", R(120), R(320), <<3, 5>>, <<8, 5>>, 4, <<1, 4>>)
BravoCompanyVehicle == Vehicle("Bravo", R(100), R(100), <<1, 5>>, <<3, 2>>, 5, <<1, 10>>)
CharlieCompanyVehicle == Vehicle("Charlie", R(160), R(220), <<4, 5>>, <<11, 5>>, 3, <<1, 20>>)
DeltaCompanyVehicle == Vehicle("Delta", R(90), R(120), <<31, 50>>, <<4, 5>>, 2, <<11, 50>>)
EchoCompanyVehicle == Vehicle("Echo", R(30), R(150), <<3, 10>>, <<29, 5>>, 2, <<61, 100>>)

\* Simulation::createVehicle
createVehicle(type) ==
    CASE type = 0 -> AlphaCompanyVehicle
      [] type = 1 -> BravoCompanyVehicle
      [] type = 2 -> CharlieCompanyVehicle
      [] type = 3 -> DeltaCompanyVehicle
      [] type = 4 -> EchoCompanyVehicle

----------------------------------------------------------------------------
(* Vehicle (src/src/vehicle.cpp) *)

\* Vehicle::setBatteryLevel: clamps to [0, batteryCapacity]
setBatteryLevel(v, level) ==
    LET l1 == IF RLt(level, Zero) THEN Zero ELSE level
        l2 == IF RGt(l1, v.batteryCapacity) THEN v.batteryCapacity ELSE l1
    IN  [v EXCEPT !.batteryLevel = l2]

\* Vehicle::setCurrentState
setCurrentState(v, state) == [v EXCEPT !.currentState = state]

\* Vehicle::getMaxFlightTime
getMaxFlightTime(v) == RDiv(v.batteryLevel, RMul(v.energyUsePerMile, v.cruiseSpeed))

\* RandomGenerator::bernoulli(p): draw is the outcome the random source
\* produces for a proper probability; p <= 0 never succeeds, p = 1 always
\* does, and p > 1 is outside std::bernoulli_distribution's precondition,
\* so any outcome may come back.
bernoulli(p, draw) ==
    IF RLe(p, Zero) THEN FALSE
    ELSE IF p = R(1) THEN TRUE
    ELSE draw

\* Vehicle::checkFault
checkFault(v, hours, draw) == bernoulli(RMul(v.faultProbability, hours), draw)

\* a fault credited at the end of the segment instead of halfway through
faultFractionWhole == R(1)

\* "Assume fault occurs halfway through": partialHours = hours * 0.5
faultFraction == Half

\* What Vehicle::fly hands back: the vehicle afterwards, the time actually
\* used, whether a fault trial was evaluated, whether the precondition failed
Flown(v, timeUsed, trialed, threw) ==
    [v |-> v, timeUsed |-> timeUsed, trialed |-> trialed, threw |-> threw]

\* a flight credit that counts the miles flown once, whatever the seats
creditFlightNoPassengers(v, flownHours, flownDistance) ==
    [v EXCEPT !.stepStats.flightTime = RAdd(@, flownHours),
              !.stepStats.distanceTraveled = RAdd(@, flownDistance),
              !.stepStats.passengerMiles = RAdd(@, flownDistance)]

\* The statistics credited by a flight segment of the given length
creditFlight(v, flownHours, flownDistance) ==
    [v EXCEPT !.stepStats.flightTime = RAdd(@, flownHours),
              !.stepStats.distanceTraveled = RAdd(@, flownDistance),
              !.stepStats.passengerMiles = RAdd(@, RMul(flownDistance, R(v.passengerCount)))]

\* a fault counted twice
countFaultTwice(v) == [v EXCEPT !.stepStats.faults = @ + 1 + 1]

\* stats.totalFaults++
countFault(v) == [v EXCEPT !.stepStats.faults = @ + 1]

\* energyNeededForFullFlight = cruiseSpeed * hours * energyUsePerMile
energyNeededForFullFlight(v, hours) ==
    RMul(RMul(v.cruiseSpeed, hours), v.energyUsePerMile)

\* Vehicle::fly, a fault: the partial flight is credited, the battery set to
\* newLevel, the fault counted, and the vehicle lands Faulted
flyFaulted(v, partialHours, partialDistance, newLevel) ==
    Flown(setCurrentState(
              countFault(setBatteryLevel(
                  creditFlight(v, partialHours, partialDistance), newLevel)),
              "Faulted"),
          partialHours, TRUE, FALSE)

\* Vehicle::fly, the battery cannot sustain the requested time: it flies
\* actualHours (maxDistance), unless a fault stops it halfway
flyUntilDepleted(v, maxDistance, actualHours, draw) ==
    IF RGt(actualHours, Zero) /\ checkFault(v, actualHours, draw)
    THEN flyFaulted(v,
            RMul(actualHours, faultFraction),
            RMul(v.cruiseSpeed, RMul(actualHours, faultFraction)),
            RMax(Zero, RSub(v.batteryLevel,
                RMul(RMul(v.cruiseSpeed, RMul(actualHours, faultFraction)),
                     v.energyUsePerMile))))
    ELSE Flown(setCurrentState(
                  setBatteryLevel(
                      IF RGt(actualHours, Zero)
                      THEN creditFlight(v, actualHours, maxDistance)
                      ELSE v,
                      Zero),
                  "Queued"),
               actualHours, RGt(actualHours, Zero), FALSE)

\* a vehicle queued after every normal flight, whatever is left in the battery
queueAnyway(v) == setCurrentState(v, "Queued")

\* Vehicle::fly, after a normal flight: Queued if the battery is depleted
queueIfDepleted(v) ==
    IF atMostEpsilon(v.batteryLevel)
    THEN setCurrentState(setBatteryLevel(v, Zero), "Queued")
    ELSE v

\* Vehicle::fly, normal flight completion
flyCompleted(v, hours) ==
    Flown(queueIfDepleted(
              creditFlight(
                  setBatteryLevel(v,
                      RSub(v.batteryLevel, energyNeededForFullFlight(v, hours))),
                  hours, RMul(v.cruiseSpeed, hours))),
          hours, TRUE, FALSE)

\* Vehicle::fly
fly(v, hours, draw) ==
    IF v.currentState # "Flying"
    THEN Flown(v, Zero, FALSE, TRUE)
    ELSE IF RLe(hours, Zero)
    THEN Flown(v, Zero, FALSE, FALSE)
    ELSE IF RGt(energyNeededForFullFlight(v, hours), v.batteryLevel)
    THEN flyUntilDepleted(v,
            RDiv(v.batteryLevel, v.energyUsePerMile),
            RDiv(RDiv(v.batteryLevel, v.energyUsePerMile), v.cruiseSpeed),
            draw)
    ELSE IF checkFault(v, hours, draw)
    THEN flyFaulted(v,
            RMul(hours, faultFraction),
            RMul(v.cruiseSpeed, RMul(hours, faultFraction)),
            RSub(v.batteryLevel,
                RMul(RMul(v.cruiseSpeed, RMul(hours, faultFraction)),
                     v.energyUsePerMile)))
    ELSE flyCompleted(v, hours)

\* What Vehicle::charge hands back: the vehicle afterwards, the time
\* actually used, whether the precondition failed
Charged(v, timeUsed, threw) == [v |-> v, timeUsed |-> timeUsed, threw |-> threw]

\* Vehicle::charge, the end: Ready when the battery is full
readyIfFull(v) ==
    IF RGe(v.batteryLevel, v.batteryCapacity)
    THEN setCurrentState(setBatteryLevel(v, v.batteryCapacity), "Ready")
    ELSE v

\* Vehicle::charge, the energy is added and the time it took is credited
addCharge(v, actualEnergyToAdd, timeActuallyUsed) ==
    Charged(readyIfFull(
                [setBatteryLevel(v, RAdd(v.batteryLevel, actualEnergyToAdd))
                    EXCEPT !.stepStats.chargingTime = RAdd(@, timeActuallyUsed)]),
            timeActuallyUsed, FALSE)

\* a charge that credits the whole budget as charging time
chargeAtRateCreditsBudget(v, hours, chargeRate) ==
    addCharge(v,
        RMin(RSub(v.batteryCapacity, v.batteryLevel), RMul(chargeRate, hours)),
        hours)

\* Vehicle::charge at the given rate: what is needed, or what the time allows
chargeAtRate(v, hours, chargeRate) ==
    addCharge(v,
        RMin(RSub(v.batteryCapacity, v.batteryLevel), RMul(chargeRate, hours)),
        RDiv(RMin(RSub(v.batteryCapacity, v.batteryLevel), RMul(chargeRate, hours)),
             chargeRate))

\* a charge that adds everything the budget allows, past a full battery
chargeUnbounded(v, hours) ==
    IF v.currentState # "Charging"
    THEN Charged(v, Zero, TRUE)
    ELSE IF RLe(hours, Zero)
    THEN Charged(v, Zero, FALSE)
    ELSE Charged(
            [v EXCEPT
                !.batteryLevel =
                    RAdd(@, RMul(RDiv(v.batteryCapacity, v.timeToCharge), hours)),
                !.stepStats.chargingTime = RAdd(@, hours),
                !.currentState =
                    IF RGe(RAdd(v.batteryLevel,
                                RMul(RDiv(v.batteryCapacity, v.timeToCharge), hours)),
                           v.batteryCapacity)
                    THEN "Ready" ELSE @],
            hours, FALSE)

\* Vehicle::charge
charge(v, hours) ==
    IF v.currentState # "Charging"
    THEN Charged(v, Zero, TRUE)
    ELSE IF RLe(hours, Zero)
    THEN Charged(v, Zero, FALSE)
    ELSE chargeAtRate(v, hours, RDiv(v.batteryCapacity, v.timeToCharge))

\* What one case of the switch in Vehicle::updateState leaves behind
Iteration(v, remainingTime, continueProcessing, trialed) ==
    [v |-> v, remainingTime |-> remainingTime,
     continueProcessing |-> continueProcessing, trialed |-> trialed]

\* a Ready case that takes off only when there is time to fly
caseReadyNeedsTime(v, remainingTime) ==
    IF RGt(v.batteryLevel, Zero) /\ RGt(remainingTime, Zero)
    THEN Iteration(setCurrentState(v, "Flying"), remainingTime, TRUE, FALSE)
    ELSE Iteration(v, remainingTime, FALSE, FALSE)

\* case State::Ready: automatic transition to Flying if battery > 0
caseReady(v, remainingTime) ==
    IF RGt(v.batteryLevel, Zero)
    THEN Iteration(setCurrentState(v, "Flying"), remainingTime, TRUE, FALSE)
    ELSE Iteration(v, remainingTime, FALSE, FALSE)

\* an afterFly that drops the budget left over after the battery ran out
afterFlyDropsLeftover(f, left) ==
    IF f.v.currentState = "Faulted"
    THEN Iteration([f.v EXCEPT !.stepStats.faultedTime = RAdd(@, f.timeUsed)],
                   Zero, FALSE, f.trialed)
    ELSE Iteration(f.v, Zero, FALSE, f.trialed)

\* case State::Flying, after fly() returned f with left = remainingTime - timeUsed
afterFly(f, left) ==
    IF f.v.currentState = "Queued" /\ RGt(left, Zero)
    THEN Iteration([f.v EXCEPT !.stepStats.queuedTime = RAdd(@, left)],
                   Zero, FALSE, f.trialed)
    ELSE IF f.v.currentState = "Faulted"
    THEN Iteration([f.v EXCEPT !.stepStats.faultedTime = RAdd(@, f.timeUsed)],
                   Zero, FALSE, f.trialed)
    ELSE Iteration(f.v, left, FALSE, f.trialed)

\* remainingTime -= timeUsed
timeLeft(r, remainingTime) == RSub(remainingTime, r.timeUsed)

\* case State::Flying, the call of fly() and what follows it
flyAndSettle(f, remainingTime) == afterFly(f, timeLeft(f, remainingTime))

\* case State::Flying: fly for the remaining time
caseFlying(v, remainingTime, draw) ==
    IF RGt(remainingTime, Zero)
    THEN flyAndSettle(fly(v, remainingTime, draw), remainingTime)
    ELSE Iteration(v, remainingTime, FALSE, FALSE)

\* a Charging case that ends the call when the battery is full
afterChargeStops(c, remainingTime) ==
    Iteration(c.v, timeLeft(c, remainingTime), FALSE, FALSE)

\* case State::Charging, after charge() returned c
afterCharge(c, remainingTime) ==
    Iteration(c.v, timeLeft(c, remainingTime), c.v.currentState = "Ready", FALSE)

\* case State::Charging: charge for the remaining time, or take the pending
\* transition to Ready when the battery is already full
caseCharging(v, remainingTime) ==
    IF RGt(remainingTime, Zero)
    THEN afterCharge(charge(v, remainingTime), remainingTime)
    ELSE IF RGe(v.batteryLevel, v.batteryCapacity)
    THEN Iteration(setCurrentState(setBatteryLevel(v, v.batteryCapacity), "Ready"),
                   remainingTime, TRUE, FALSE)
    ELSE Iteration(v, remainingTime, FALSE, FALSE)

\* a Queued case that lets the waiting time pass without booking it
caseQueuedUncredited(v, remainingTime) == Iteration(v, Zero, FALSE, FALSE)

\* case State::Queued: wait
caseQueued(v, remainingTime) ==
    IF RGt(remainingTime, Zero)
    THEN Iteration([v EXCEPT !.stepStats.queuedTime = RAdd(@, remainingTime)],
                   Zero, FALSE, FALSE)
    ELSE Iteration(v, remainingTime, FALSE, FALSE)

\* a Faulted case that books the time as waiting in the queue
caseFaultedAsQueued(v, remainingTime) ==
    Iteration([setCurrentState(v, "Faulted") EXCEPT
                  !.stepStats.queuedTime = RAdd(@, remainingTime)],
              Zero, FALSE, FALSE)

\* case State::Faulted: stay faulted
caseFaulted(v, remainingTime) ==
    Iteration([setCurrentState(v, "Faulted") EXCEPT
                  !.stepStats.faultedTime = RAdd(@, remainingTime)],
              Zero, FALSE, FALSE)

\* switch (currentState)
switchState(v, remainingTime, draw) ==
    CASE v.currentState = "Ready" -> caseReady(v, remainingTime)
      [] v.currentState = "Flying" -> caseFlying(v, remainingTime, draw)
      [] v.currentState = "Charging" -> caseCharging(v, remainingTime)
      [] v.currentState = "Queued" -> caseQueued(v, remainingTime)
      [] v.currentState = "Faulted" -> caseFaulted(v, remainingTime)

\* The while loop of Vehicle::updateState: one iteration per unfolding.
\* Result: the vehicle afterwards and whether a fault trial was evaluated.
RECURSIVE updateStateLoop(_, _, _, _, _)
nextIteration(it, draw, trialed) ==
    updateStateLoop(it.v, it.remainingTime, it.continueProcessing, draw,
                    trialed \/ it.trialed)

updateStateLoop(v, remainingTime, continueProcessing, draw, trialed) ==
    IF ~(continueProcessing /\ RGe(remainingTime, Zero))
    THEN [v |-> v, trialed |-> trialed]
    ELSE nextIteration(switchState(v, remainingTime, draw), draw, trialed)

\* Vehicle::updateState(hours): the state machine proper
updateState(v, hours, draw) == updateStateLoop(v, hours, TRUE, draw, FALSE)

\* the cumulative statistics overwritten by the step statistics
accumulateOverwrites(r) ==
    [v |-> [r.v EXCEPT !.totalStats = r.v.stepStats], trialed |-> r.trialed]

\* What the call credited to the step statistics is added to the cumulative
\* statistics
accumulate(r) ==
    [v |-> [r.v EXCEPT !.totalStats = StatsAdd(@, r.v.stepStats)],
     trialed |-> r.trialed]

\* an advance that keeps the step statistics of the call before
advanceNoReset(v, hours, draw) == accumulate(updateState(v, hours, draw))

\* The public advance operation: the step statistics are zeroed, the state
\* machine runs, and what it credited is added to the cumulative statistics.
advance(v, hours, draw) ==
    accumulate(updateState([v EXCEPT !.stepStats = ZeroStats], hours, draw))

\* a startCharging that hands the vehicle over with a full battery
startChargingFull(v) ==
    IF v.currentState # "Queued"
    THEN [v |-> v, threw |-> TRUE]
    ELSE [v |-> setBatteryLevel(
                    advance(setCurrentState(v, "Charging"), Zero, FALSE).v,
                    v.batteryCapacity),
          threw |-> FALSE]

\* a startCharging without the check of the current state
startChargingUnguarded(v) ==
    [v |-> advance(setCurrentState(v, "Charging"), Zero, FALSE).v, threw |-> FALSE]

\* Vehicle::startCharging.  Result: the vehicle afterwards and whether the
\* precondition failed.
startCharging(v) ==
    IF v.currentState # "Queued"
    THEN [v |-> v, threw |-> TRUE]
    ELSE [v |-> advance(setCurrentState(v, "Charging"), Zero, FALSE).v, threw |-> FALSE]

----------------------------------------------------------------------------
(* Simulation (src/src/simulation.cpp) *)

\* a time step that ignores the time remaining to the horizon
nextTimeStepFixed(now) == RMul(simTimeStepSeconds, SECONDS_TO_HOURS)

\* Simulation::nextTimeStep
nextTimeStep(now) ==
    RMin(RMul(simTimeStepSeconds, SECONDS_TO_HOURS), RSub(simHours, now))

\* VehicleTypeStats of a manufacturer first seen by initializeVehicles
NewTypeStats ==
    [vehicleCount |-> 0, totalFlights |-> 0, totalCharges |-> 0,
     totalFlightTime |-> Zero, totalDistance |-> Zero, totalChargingTime |-> Zero,
     totalFaults |-> 0, totalPassengerMiles |-> Zero]

\* Simulation::initializeVehicles: the fleet for the given type draws and
\* the per-type statistics with their vehicle counts
initialFleet(types) == [i \in 1..Len(types) |-> createVehicle(types[i])]

initialTypeStats(fleet) ==
    [m \in {fleet[i].manufacturer : i \in 1..Len(fleet)} |->
        [NewTypeStats EXCEPT
            !.vehicleCount = Cardinality({i \in 1..Len(fleet) : fleet[i].manufacturer = m})]]

\* The type draws initializeVehicles can make: uniformInt(0, NUM_VEHICLE_TYPES - 1)
\* per vehicle, or round-robin
TypeDraws(n, random) ==
    IF random
    THEN [1..n -> 0..(NUM_VEHICLE_TYPES - 1)]
    ELSE {[i \in 1..n |-> (i - 1) % NUM_VEHICLE_TYPES]}

\* an updateVehicleStats that folds the cumulative statistics of the
\* vehicle, tick after tick, in place of its step statistics
updateVehicleStatsFoldsTotals(i, v, ts, ls) ==
    [typeStats |->
        [ts EXCEPT ![v.manufacturer] =
            [@ EXCEPT
                !.totalFlightTime = RAdd(@, v.totalStats.flightTime),
                !.totalDistance = RAdd(@, v.totalStats.distanceTraveled),
                !.totalChargingTime = RAdd(@, v.totalStats.chargingTime),
                !.totalFaults = @ + v.totalStats.faults,
                !.totalPassengerMiles = RAdd(@, v.totalStats.passengerMiles)]],
     lastState |-> [j \in (DOMAIN ls) \cup {i} |->
                        IF j = i THEN v.currentState ELSE ls[j]]]

\* an updateVehicleStats that keeps one last state for the whole fleet
updateVehicleStatsSharedLast(i, v, ts, ls) ==
    LET m == v.manufacturer
        cur == v.currentState
        prev == IF 1 \in DOMAIN ls THEN ls[1] ELSE cur
        t1 == IF prev = "Charging" /\ cur # "Charging"
              THEN [ts[m] EXCEPT !.totalCharges = @ + 1]
              ELSE IF prev = "Flying" /\ cur # "Flying"
              THEN [ts[m] EXCEPT !.totalFlights = @ + 1]
              ELSE ts[m]
        t2 == [t1 EXCEPT
                !.totalFlightTime = RAdd(@, v.stepStats.flightTime),
                !.totalDistance = RAdd(@, v.stepStats.distanceTraveled),
                !.totalChargingTime = RAdd(@, v.stepStats.chargingTime),
                !.totalFaults = @ + v.stepStats.faults,
                !.totalPassengerMiles = RAdd(@, v.stepStats.passengerMiles)]
    IN  [typeStats |-> [ts EXCEPT ![m] = t2],
         lastState |-> [j \in (DOMAIN ls) \cup {i} |-> IF j = 1 \/ j \notin DOMAIN ls THEN cur ELSE ls[j]]]

\* an updateVehicleStats that does not count a flight a fault ended
updateVehicleStatsSkipsFaulted(i, v, ts, ls) ==
    LET m == v.manufacturer
        cur == v.currentState
        prev == IF i \in DOMAIN ls THEN ls[i] ELSE cur
        t1 == IF prev = "Charging" /\ cur # "Charging"
              THEN [ts[m] EXCEPT !.totalCharges = @ + 1]
              ELSE IF prev = "Flying" /\ cur \notin {"Flying", "Faulted"}
              THEN [ts[m] EXCEPT !.totalFlights = @ + 1]
              ELSE ts[m]
        t2 == [t1 EXCEPT
                !.totalFlightTime = RAdd(@, v.stepStats.flightTime),
                !.totalDistance = RAdd(@, v.stepStats.distanceTraveled),
                !.totalChargingTime = RAdd(@, v.stepStats.chargingTime),
                !.totalFaults = @ + v.stepStats.faults,
                !.totalPassengerMiles = RAdd(@, v.stepStats.passengerMiles)]
    IN  [typeStats |-> [ts EXCEPT ![m] = t2],
         lastState |-> [j \in (DOMAIN ls) \cup {i} |-> IF j = i THEN cur ELSE ls[j]]]

\* Simulation::updateVehicleStats for vehicle i (already advanced).
\* Result: the new typeStats and lastState.
updateVehicleStats(i, v, ts, ls) ==
    LET m == v.manufacturer
        cur == v.currentState
        prev == IF i \in DOMAIN ls THEN ls[i] ELSE cur
        t1 == IF prev = "Charging" /\ cur # "Charging"
              THEN [ts[m] EXCEPT !.totalCharges = @ + 1]
              ELSE IF prev = "Flying" /\ cur # "Flying"
              THEN [ts[m] EXCEPT !.totalFlights = @ + 1]
              ELSE ts[m]
        t2 == [t1 EXCEPT
                !.totalFlightTime = RAdd(@, v.stepStats.flightTime),
                !.totalDistance = RAdd(@, v.stepStats.distanceTraveled),
                !.totalChargingTime = RAdd(@, v.stepStats.chargingTime),
                !.totalFaults = @ + v.stepStats.faults,
                !.totalPassengerMiles = RAdd(@, v.stepStats.passengerMiles)]
    IN  [typeStats |-> [ts EXCEPT ![m] = t2],
         lastState |-> [j \in (DOMAIN ls) \cup {i} |-> IF j = i THEN cur ELSE ls[j]]]

\* Simulation::updateAllVehicles: vehicles i..n in fleet order, each advanced
\* and then folded into the type statistics
RECURSIVE updateAllVehicles(_, _, _, _, _, _)
nextVehicle(i, fleet, u, step, draws) ==
    updateAllVehicles(i + 1, fleet, u.typeStats, u.lastState, step, draws)

updateOneVehicle(i, fleet, v, ts, ls, step, draws) ==
    nextVehicle(i, [fleet EXCEPT ![i] = v], updateVehicleStats(i, v, ts, ls),
                step, draws)

updateAllVehicles(i, fleet, ts, ls, step, draws) ==
    IF i > Len(fleet)
    THEN [vehicles |-> fleet, typeStats |-> ts, lastState |-> ls]
    ELSE updateOneVehicle(i, fleet, advance(fleet[i], step, draws[i]).v,
                          ts, ls, step, draws)

\* a release that never empties a charger
processChargingVehiclesKeepsAll(stations, fleet) == stations

\* a release that empties every charger, whatever its vehicle is doing
processChargingVehiclesFreesAll(stations, fleet) ==
    [i \in DOMAIN stations |-> NULL]

\* Simulation::processChargingVehicles: free every charger whose vehicle is
\* no longer Charging
processChargingVehicles(stations, fleet) ==
    [i \in DOMAIN stations |->
        IF stations[i] # NULL /\ fleet[stations[i]].currentState # "Charging"
        THEN NULL
        ELSE stations[i]]

\* an enqueue sweep that does not consult the membership set
newlyQueuedUnchecked(fleet, members) ==
    SelectSeq([i \in 1..Len(fleet) |-> i],
              LAMBDA i : fleet[i].currentState = "Queued")

\* an enqueue sweep that takes every vehicle outside the membership set
newlyQueuedAnyState(fleet, members) ==
    SelectSeq([i \in 1..Len(fleet) |-> i], LAMBDA i : i \notin members)

\* The enqueue sweep of Simulation::manageCharging: the vehicles it appends,
\* in fleet order
newlyQueued(fleet, members) ==
    SelectSeq([i \in 1..Len(fleet) |-> i],
              LAMBDA i : fleet[i].currentState = "Queued" /\ i \notin members)

\* chargingQueue.back() in place of front()
queueBack(queue) == queue[Len(queue)]

\* a pop that leaves the queue as it is
queueKeep(queue) == queue

\* chargingQueue.front() and chargingQueue.pop()
queueFront(queue) == Head(queue)
queuePop(queue) == Tail(queue)

\* an assignment that does not record the vehicle in the station
setStationForgets(stations, i, vehicle) == stations

\* chargingStations[i] = vehicle
setStation(stations, i, vehicle) ==
    [j \in (DOMAIN stations) \cup {i} |-> IF j = i THEN vehicle ELSE stations[j]]

\* the loop bound i <= numChargers in place of i < numChargers
chargerIndicesOffByOne(n) == 1..(n + 1)

\* a loop that stops one charger short
chargerIndicesButLast(n) == 1..(n - 1)

\* The chargers the loop of assignAvailableChargers visits
chargerIndices(n) == 1..n

\* an assignment that gives the charger to whatever vehicle it pops
RECURSIVE assignAvailableChargersUnchecked(_, _, _)
assignAvailableChargersUnchecked(i, n, s) ==
    IF ~(i \in chargerIndices(n) /\ s.queue # <<>>)
    THEN s
    ELSE IF (IF i \in DOMAIN s.stations THEN s.stations[i] ELSE NULL) # NULL
    THEN assignAvailableChargersUnchecked(i + 1, n, s)
    ELSE assignAvailableChargersUnchecked(i + 1, n,
            [s EXCEPT
                !.queue = queuePop(@),
                !.members = @ \ {queueFront(s.queue)},
                !.stations = setStation(@, i, queueFront(s.queue)),
                !.vehicles[queueFront(s.queue)] = startCharging(@).v,
                !.started = Append(@, [vehicle |-> queueFront(s.queue), step |-> stepCount])])

\* Simulation::assignAvailableChargers, chargers i..n.
\* s: [stations, queue, members, vehicles, started]
RECURSIVE assignAvailableChargers(_, _, _)
assignAvailableChargers(i, n, s) ==
    IF ~(i \in chargerIndices(n) /\ s.queue # <<>>)
    THEN s
    ELSE IF (IF i \in DOMAIN s.stations THEN s.stations[i] ELSE NULL) # NULL
    THEN assignAvailableChargers(i + 1, n, s)
    ELSE
        LET vehicle == queueFront(s.queue)
            popped == [s EXCEPT !.queue = queuePop(@), !.members = @ \ {vehicle}]
        IN
        IF s.vehicles[vehicle].currentState = "Queued"
        THEN assignAvailableChargers(i + 1, n,
                [popped EXCEPT
                    !.stations = setStation(@, i, vehicle),
                    !.vehicles[vehicle] = startCharging(@).v,
                    !.started = Append(@, [vehicle |-> vehicle, step |-> stepCount])])
        ELSE assignAvailableChargers(i + 1, n, popped)

\* an enqueue sweep that appends to the queue but forgets the membership set
enqueueSweepForgets(queue, members, fleet) ==
    [queue |-> queue \o newlyQueued(fleet, members), members |-> members]

\* The enqueue sweep of Simulation::manageCharging: every Queued vehicle that
\* is not in the membership set is pushed on the queue and inserted in the set
enqueueSweep(queue, members, fleet) ==
    [queue |-> queue \o newlyQueued(fleet, members),
     members |-> members \cup
                    {newlyQueued(fleet, members)[k] :
                        k \in 1..Len(newlyQueued(fleet, members))}]

\* a manageCharging that assigns the chargers before the enqueue sweep
manageChargingAssignFirst(stations, queue, members, fleet, startedSoFar) ==
    LET assigned == assignAvailableChargers(1, numChargers,
                        [stations |-> stations, queue |-> queue,
                         members |-> members, vehicles |-> fleet,
                         started |-> startedSoFar])
        swept == enqueueSweep(assigned.queue, assigned.members, assigned.vehicles)
    IN  [new |-> newlyQueued(assigned.vehicles, assigned.members),
         after |-> [assigned EXCEPT !.queue = swept.queue,
                                    !.members = swept.members]]

\* Simulation::manageCharging: enqueue sweep, then assignAvailableChargers
manageCharging(stations, queue, members, fleet, startedSoFar) ==
    [new |-> newlyQueued(fleet, members),
     after |-> assignAvailableChargers(1, numChargers,
                [stations |-> stations,
                 queue |-> enqueueSweep(queue, members, fleet).queue,
                 members |-> enqueueSweep(queue, members, fleet).members,
                 vehicles |-> fleet,
                 started |-> startedSoFar])]

----------------------------------------------------------------------------
(* The simulation run *)

StepSeconds == {R(1800), R(3600)}
HorizonHours == {R(h) : h \in 1..MaxSimHours} \cup {RAdd(R(h), Half) : h \in 1..(MaxSimHours - 1)}

\* op: the operation; hours, draw: its arguments (the budget and the outcome
\* the random source had ready); trialed: whether a fault trial was
\* evaluated; threw: whether it ended in a precondition error
Call(op, hours, draw, trialed, threw) ==
    [op |-> op, hours |-> hours, draw |-> draw, trialed |-> trialed, threw |-> threw]

\* The state after Simulation::Simulation
Init ==
    /\ numVehicles \in 1..MaxVehicles
    /\ simHours \in HorizonHours
    /\ numChargers \in 1..MaxChargers
    /\ simTimeStepSeconds \in StepSeconds
    /\ randomizeVehicles \in BOOLEAN
    /\ currentTime = Zero
    /\ timeStep = Zero
    /\ stepCount = 0
    /\ vehicles = <<>>
    /\ chargingQueue = <<>>
    /\ queuedVehicles = {}
    /\ chargingStations = [i \in 1..numChargers |-> NULL]
    /\ typeStats = <<>>
    /\ lastState = <<>>
    /\ pc = "constructed"
    /\ lastCall = Call("Simulation", Zero, FALSE, FALSE, FALSE)
    /\ enqueued = <<>>
    /\ started = <<>>
    /\ calls = 0

\* a loop that never tests its condition
loopForever(now) == "release"

\* while (currentTime < simHours)
LoopOrDone(now) == IF RLt(now, simHours) THEN "release" ELSE "done"

\* runSimulation up to the loop: clock reset and initializeVehicles
RunSimulation ==
    /\ pc = "constructed"
    /\ \E types \in TypeDraws(numVehicles, randomizeVehicles) :
        /\ vehicles' = initialFleet(types)
        /\ typeStats' = initialTypeStats(initialFleet(types))
    /\ currentTime' = Zero
    /\ stepCount' = 0
    /\ timeStep' = nextTimeStep(Zero)
    /\ pc' = LoopOrDone(Zero)
    /\ lastCall' = Call("initializeVehicles", Zero, FALSE, FALSE, FALSE)
    /\ UNCHANGED <<configVars, schedulerVars, lastState, historyVars, calls>>

\* loop body, first call: processChargingVehicles()
ProcessChargingVehicles ==
    /\ pc = "release"
    /\ chargingStations' = processChargingVehicles(chargingStations, vehicles)
    /\ pc' = "update"
    /\ lastCall' = Call("processChargingVehicles", Zero, FALSE, FALSE, FALSE)
    /\ UNCHANGED <<configVars, currentTime, timeStep, stepCount, vehicles,
                   chargingQueue, queuedVehicles, typeStats, lastState,
                   historyVars, calls>>

\* loop body, second call: updateAllVehicles(timeStep)
UpdateAllVehicles ==
    /\ pc = "update"
    /\ \E draws \in [1..numVehicles -> BOOLEAN] :
        \E u \in {updateAllVehicles(1, vehicles, typeStats, lastState, timeStep, draws)} :
            /\ vehicles' = u.vehicles
            /\ typeStats' = u.typeStats
            /\ lastState' = u.lastState
    /\ pc' = "manage"
    /\ lastCall' = Call("updateAllVehicles", timeStep, FALSE, FALSE, FALSE)
    /\ UNCHANGED <<configVars, currentTime, timeStep, stepCount,
                   schedulerVars, historyVars, calls>>

\* loop body, third call: manageCharging()
ManageCharging ==
    /\ pc = "manage"
    /\ \E m \in {manageCharging(chargingStations, chargingQueue, queuedVehicles,
                                vehicles, started)} :
           /\ chargingStations' = m.after.stations
           /\ chargingQueue' = m.after.queue
           /\ queuedVehicles' = m.after.members
           /\ vehicles' = m.after.vehicles
           /\ started' = m.after.started
           /\ enqueued' = enqueued \o [k \in 1..Len(m.new) |->
                                        [vehicle |-> m.new[k], step |-> stepCount]]
    /\ pc' = "clock"
    /\ lastCall' = Call("manageCharging", Zero, FALSE, FALSE, FALSE)
    /\ UNCHANGED <<configVars, currentTime, timeStep, stepCount, typeStats,
                   lastState, calls>>

\* loop body, end: the clock advances and the loop condition is re-tested
AdvanceClock ==
    /\ pc = "clock"
    /\ currentTime' = RAdd(currentTime, timeStep)
    /\ stepCount' = stepCount + 1
    /\ timeStep' = nextTimeStep(RAdd(currentTime, timeStep))
    /\ pc' = LoopOrDone(RAdd(currentTime, timeStep))
    /\ lastCall' = Call("nextTimeStep", Zero, FALSE, FALSE, FALSE)
    /\ UNCHANGED <<configVars, vehicles, schedulerVars, typeStats, lastState,
                   historyVars, calls>>

Next ==
    \/ RunSimulation
    \/ ProcessChargingVehicles
    \/ UpdateAllVehicles
    \/ ManageCharging
    \/ AdvanceClock

Spec == Init /\ [][Next]_vars

\* The positions of runSimulation
Phases == {"constructed", "release", "update", "manage", "clock", "done"}

\* runSimulation moves on from its current position.  Every step of Next
\* is such a step, and one is possible exactly when the run has not ended.
Proceeds == pc # "done" /\ pc' \in Phases /\ pc' # pc

\* runSimulation is sequential code: as long as it has not returned, the
\* statement it is at is eventually executed
LiveSpec == Spec /\ WF_pc(Proceeds)

----------------------------------------------------------------------------
(* The end-to-end scenario: three vehicles of one archetype whose maximum *)
(* flight time is under an hour, one charger, a one-hour horizon, a       *)
(* one-second step, and a random source that never reports a fault        *)

ScenarioInit ==
    /\ numVehicles = 3
    /\ simHours = R(1)
    /\ numChargers = 1
    /\ simTimeStepSeconds = R(1)
    /\ randomizeVehicles = TRUE
    /\ currentTime = Zero
    /\ timeStep = Zero
    /\ stepCount = 0
    /\ vehicles = <<>>
    /\ chargingQueue = <<>>
    /\ queuedVehicles = {}
    /\ chargingStations = [i \in 1..1 |-> NULL]
    /\ typeStats = <<>>
    /\ lastState = <<>>
    /\ pc = "constructed"
    /\ lastCall = Call("Simulation", Zero, FALSE, FALSE, FALSE)
    /\ enqueued = <<>>
    /\ started = <<>>
    /\ calls = 0

\* initializeVehicles when uniformInt hands out the same type for every
\* vehicle, a type whose maximum flight time is under an hour
ScenarioRunSimulation ==
    /\ RunSimulation
    /\ \A i \in 1..Len(vehicles') :
        /\ vehicles'[i].manufacturer = vehicles'[1].manufacturer
        /\ RLt(getMaxFlightTime(vehicles'[i]), R(1))

\* updateAllVehicles when bernoulli never reports a fault
ScenarioUpdateAllVehicles ==
    /\ UpdateAllVehicles
    /\ \A i \in 1..Len(vehicles') : vehicles'[i].currentState # "Faulted"

ScenarioNext ==
    \/ ScenarioRunSimulation
    \/ ProcessChargingVehicles
    \/ ScenarioUpdateAllVehicles
    \/ ManageCharging
    \/ AdvanceClock

ScenarioSpec == ScenarioInit /\ [][ScenarioNext]_vars

----------------------------------------------------------------------------
(* A single vehicle driven through its public operations, as the unit    *)
(* tests drive it                                                         *)

\* The budgets the driver passes to updateState
Budgets(v) ==
    {Zero, <<1, 4>>, R(1), R(2),
     getMaxFlightTime(v), RAdd(getMaxFlightTime(v), <<1, 20>>)}

VehicleInit ==
    /\ numVehicles = 1
    /\ simHours = R(1)
    /\ numChargers = 1
    /\ simTimeStepSeconds = R(1)
    /\ randomizeVehicles = FALSE
    /\ currentTime = Zero
    /\ timeStep = Zero
    /\ stepCount = 0
    /\ \E type \in 0..(NUM_VEHICLE_TYPES - 1) : vehicles = <<createVehicle(type)>>
    /\ chargingQueue = <<>>
    /\ queuedVehicles = {}
    /\ chargingStations = [i \in 1..1 |-> NULL]
    /\ typeStats = <<>>
    /\ lastState = <<>>
    /\ pc = "driver"
    /\ lastCall = Call("Vehicle", Zero, FALSE, FALSE, FALSE)
    /\ enqueued = <<>>
    /\ started = <<>>
    /\ calls = 0

driverFrame ==
    UNCHANGED <<configVars, currentTime, timeStep, stepCount, schedulerVars,
                typeStats, lastState, pc, historyVars>>

\* vehicle->updateState(hours)
CallUpdateState ==
    /\ pc = "driver"
    /\ calls < MaxCalls
    /\ \E hours \in Budgets(vehicles[1]), draw \in BOOLEAN :
        \E a \in {advance(vehicles[1], hours, draw)} :
            /\ vehicles' = <<a.v>>
            /\ lastCall' = Call("updateState", hours, draw, a.trialed, FALSE)
    /\ calls' = calls + 1
    /\ driverFrame

\* vehicle->startCharging()
CallStartCharging ==
    /\ pc = "driver"
    /\ calls < MaxCalls
    /\ \E c \in {startCharging(vehicles[1])} :
           /\ vehicles' = <<c.v>>
           /\ lastCall' = Call("startCharging", Zero, FALSE, FALSE, c.threw)
    /\ calls' = calls + 1
    /\ driverFrame

\* vehicle->fly(hours)
CallFly ==
    /\ pc = "driver"
    /\ calls < MaxCalls
    /\ \E hours \in Budgets(vehicles[1]), draw \in BOOLEAN :
        \E f \in {fly(vehicles[1], hours, draw)} :
            /\ vehicles' = <<f.v>>
            /\ lastCall' = Call("fly", hours, draw, f.trialed, f.threw)
    /\ calls' = calls + 1
    /\ driverFrame

\* vehicle->charge(hours)
CallCharge ==
    /\ pc = "driver"
    /\ calls < MaxCalls
    /\ \E hours \in Budgets(vehicles[1]) :
        \E c \in {charge(vehicles[1], hours)} :
            /\ vehicles' = <<c.v>>
            /\ lastCall' = Call("charge", hours, FALSE, FALSE, c.threw)
    /\ calls' = calls + 1
    /\ driverFrame

VehicleNext ==
    \/ CallUpdateState
    \/ CallStartCharging
    \/ CallFly
    \/ CallCharge

VehicleSpec == VehicleInit /\ [][VehicleNext]_vars

----------------------------------------------------------------------------
(* assignAvailableChargers applied to a scheduler the caller has filled by  *)
(* hand, as the ChargingQueue test fills the queue                          *)

\* A vehicle of the given type as constructed (Ready), after a short flight
\* (Flying), after a flight that drained the battery (Queued), and after a
\* flight a fault ended (Faulted)
Snapshots(type) ==
    {createVehicle(type),
     advance(createVehicle(type), <<1, 4>>, FALSE).v,
     advance(createVehicle(type), R(2), FALSE).v,
     advance(createVehicle(type), <<1, 4>>, TRUE).v}

\* The queues the caller can build: every vehicle pushed at most once
HandQueues(n) ==
    {q \in UNION {[1..k -> 1..n] : k \in 0..n} :
        \A a, b \in DOMAIN q : a # b => q[a] # q[b]}

AssignInit ==
    /\ numVehicles \in 1..MaxVehicles
    /\ simHours = R(1)
    /\ numChargers \in 1..MaxChargers
    /\ simTimeStepSeconds = R(1)
    /\ randomizeVehicles = FALSE
    /\ currentTime = Zero
    /\ timeStep = Zero
    /\ stepCount = 0
    /\ \E type \in 0..(NUM_VEHICLE_TYPES - 1) :
           vehicles \in [1..numVehicles -> Snapshots(type)]
    /\ chargingQueue \in HandQueues(numVehicles)
    /\ queuedVehicles = {chargingQueue[k] : k \in DOMAIN chargingQueue}
    /\ chargingStations \in
           [1..numChargers -> {NULL} \cup ((1..numVehicles) \ queuedVehicles)]
    /\ typeStats = <<>>
    /\ lastState = <<>>
    /\ pc = "filled"
    /\ lastCall = Call("Simulation", Zero, FALSE, FALSE, FALSE)
    /\ enqueued = <<>>
    /\ started = <<>>
    /\ calls = 0

\* sim.assignAvailableChargers()
CallAssignAvailableChargers ==
    /\ pc = "filled"
    /\ \E a \in {assignAvailableChargers(1, numChargers,
                    [stations |-> chargingStations, queue |-> chargingQueue,
                     members |-> queuedVehicles, vehicles |-> vehicles,
                     started |-> started])} :
           /\ chargingStations' = a.stations
           /\ chargingQueue' = a.queue
           /\ queuedVehicles' = a.members
           /\ vehicles' = a.vehicles
           /\ started' = a.started
    /\ pc' = "assigned"
    /\ lastCall' = Call("assignAvailableChargers", Zero, FALSE, FALSE, FALSE)
    /\ UNCHANGED <<configVars, currentTime, timeStep, stepCount, typeStats,
                   lastState, enqueued, calls>>

AssignNext == CallAssignAvailableChargers

AssignSpec == AssignInit /\ [][AssignNext]_vars

----------------------------------------------------------------------------
(* Properties *)

Fleet == 1..Len(vehicles)

\* The time an advance call credited to the four time buckets
timeCredited(stats) ==
    RAdd(RAdd(stats.flightTime, stats.queuedTime),
         RAdd(stats.chargingTime, stats.faultedTime))

\* C1: every updateState(hours) call credits exactly hours to
\* flight + queued + charging + faulted time, whatever the state of the
\* vehicle and the outcome of the fault trial.
C1_BudgetFullyAccounted ==
    [][lastCall'.op = "updateState" =>
        timeCredited(vehicles'[1].stepStats) = lastCall'.hours]_vars

\* C2: the battery level of every vehicle is within [0, batteryCapacity].
C2_BatteryWithinCapacity ==
    \A i \in Fleet :
        /\ RLe(Zero, vehicles[i].batteryLevel)
        /\ RLe(vehicles[i].batteryLevel, vehicles[i].batteryCapacity)

\* C2 witness: a charge step that stopped at a full battery although its
\* budget would have added more (it then flew on and drained that battery).
C2_Witness ==
    /\ lastCall.op = "updateState"
    /\ RGt(vehicles[1].stepStats.chargingTime, Zero)
    /\ RLt(vehicles[1].stepStats.chargingTime, lastCall.hours)
    /\ vehicles[1].currentState = "Flying"
    /\ RLt(Zero, vehicles[1].batteryLevel)
    /\ RLt(vehicles[1].batteryLevel, vehicles[1].batteryCapacity)

QueueMembers == {chargingQueue[k] : k \in 1..Len(chargingQueue)}
OccupiedChargers == {i \in DOMAIN chargingStations : chargingStations[i] # NULL}

\* C3: no vehicle is at the same time in the wait queue and referenced by a
\* charging station.
C3_NeverQueuedAndInSlot ==
    \A i \in OccupiedChargers : chargingStations[i] \notin QueueMembers

\* C4: the wait queue never holds the same vehicle twice.
C4_QueueHasNoDuplicates ==
    \A k, l \in 1..Len(chargingQueue) :
        k # l => chargingQueue[k] # chargingQueue[l]

\* C4 witness: an enqueue sweep has just run over a vehicle that an earlier
\* tick appended and that is still waiting, Queued, in the queue.
C4_Witness ==
    /\ pc = "clock"
    /\ \E k \in 1..Len(enqueued) :
        /\ k > Len(started)
        /\ enqueued[k].step < stepCount
        /\ enqueued[k].vehicle \in QueueMembers
        /\ enqueued[k].vehicle \in queuedVehicles
        /\ vehicles[enqueued[k].vehicle].currentState = "Queued"

\* C5: assignment is FIFO by enqueue order: the vehicles started charging
\* are, in order, the first vehicles appended to the queue (so a vehicle
\* appended before another is started no later than it), and the vehicles
\* one enqueue sweep appends are in fleet order.
C5_FifoAssignment ==
    /\ Len(started) <= Len(enqueued)
    /\ \A k \in 1..Len(started) :
        /\ started[k].vehicle = enqueued[k].vehicle
        /\ enqueued[k].step <= started[k].step
    /\ \A k, l \in 1..Len(started) : k < l => started[k].step <= started[l].step
    /\ \A k, l \in 1..Len(enqueued) :
        /\ k < l => enqueued[k].step <= enqueued[l].step
        /\ (k < l /\ enqueued[k].step = enqueued[l].step) =>
                enqueued[k].vehicle < enqueued[l].vehicle

\* C5 witness: two vehicles appended by the same sweep, the first started
\* in that tick and the second, which had to wait for the charger, later.
C5_Witness ==
    /\ Len(started) >= 2
    /\ enqueued[1].step = enqueued[2].step
    /\ started[1].step = enqueued[1].step
    /\ started[2].step > started[1].step

\* C6: the number of occupied chargers is at most numChargers.
C6_OccupiedAtMostChargers == Cardinality(OccupiedChargers) <= numChargers

\* C6 witness: every charger is occupied while a vehicle is still waiting.
C6_Witness ==
    /\ Cardinality(OccupiedChargers) = numChargers
    /\ chargingQueue # <<>>
    /\ \A i \in OccupiedChargers : vehicles[chargingStations[i]].currentState = "Charging"

\* The flight time a full battery sustains
fullBatteryFlightTime(v) ==
    RDiv(v.batteryCapacity, RMul(v.energyUsePerMile, v.cruiseSpeed))

\* C7: Faulted is absorbing: updateState(hours) on a Faulted vehicle leaves
\* it Faulted, adds hours to faulted time and changes nothing else (no
\* other statistic, not the fault count, not the battery, no fault trial);
\* startCharging on it fails and changes nothing.
C7_FaultedIsAbsorbing ==
    [][vehicles[1].currentState = "Faulted" =>
        /\ vehicles'[1].currentState = "Faulted"
        /\ vehicles'[1].batteryLevel = vehicles[1].batteryLevel
        /\ lastCall'.op = "updateState" =>
            /\ vehicles'[1].stepStats =
                    [ZeroStats EXCEPT !.faultedTime = lastCall'.hours]
            /\ vehicles'[1].totalStats =
                    [vehicles[1].totalStats EXCEPT
                        !.faultedTime = RAdd(@, lastCall'.hours)]
            /\ ~lastCall'.trialed
        /\ lastCall'.op = "startCharging" =>
            /\ lastCall'.threw
            /\ vehicles'[1] = vehicles[1]
      ]_vars

\* C7 witness: updateState with a positive budget has run on a vehicle that
\* was already Faulted (no fault trial was evaluated in the call).
C7_Witness ==
    /\ lastCall.op = "updateState"
    /\ ~lastCall.trialed
    /\ RGt(lastCall.hours, Zero)
    /\ vehicles[1].currentState = "Faulted"
    /\ vehicles[1].totalStats.faults = 1
    /\ RGt(vehicles[1].totalStats.faultedTime, vehicles[1].stepStats.faultedTime)

\* What C8 expects of a full-battery flight of M hours ended by a fault
faultedFlightStats(v, M) ==
    [flightTime |-> RMul(M, Half),
     queuedTime |-> Zero,
     distanceTraveled |-> RMul(RMul(M, v.cruiseSpeed), Half),
     chargingTime |-> Zero,
     faultedTime |-> RMul(M, Half),
     faults |-> 1,
     passengerMiles |-> RMul(RMul(RMul(M, v.cruiseSpeed), R(v.passengerCount)), Half)]

\* C8: when the random source reports a fault, a Ready vehicle with a full
\* battery advanced by its maximum flight time M ends Faulted with
\* flight time M/2, distance M*cruiseSpeed/2, passenger miles
\* M*cruiseSpeed*passengerCount/2, faulted time M/2, no queued or charging
\* time and one fault.
C8_FaultAtMaxFlightTime ==
    [][(/\ vehicles[1].currentState = "Ready"
        /\ vehicles[1].batteryLevel = vehicles[1].batteryCapacity
        /\ lastCall'.op = "updateState"
        /\ lastCall'.hours = getMaxFlightTime(vehicles[1])
        /\ lastCall'.draw) =>
        /\ vehicles'[1].currentState = "Faulted"
        /\ vehicles'[1].stepStats = faultedFlightStats(vehicles[1], lastCall'.hours)
        /\ vehicles'[1].totalStats =
                StatsAdd(vehicles[1].totalStats,
                         faultedFlightStats(vehicles[1], lastCall'.hours))
      ]_vars

\* C8 witness: the first call on a fresh vehicle was updateState(M) and the
\* random source reported a fault.
C8_Witness ==
    /\ calls = 1
    /\ lastCall.op = "updateState"
    /\ lastCall.draw
    /\ lastCall.trialed
    /\ lastCall.hours = fullBatteryFlightTime(vehicles[1])
    /\ vehicles[1].currentState = "Faulted"

\* What C9 expects of a fault-free flight that drains a full battery
\* within a budget of hours
drainedFlightStats(v, M, hours) ==
    [flightTime |-> M,
     queuedTime |-> RSub(hours, M),
     distanceTraveled |-> RMul(M, v.cruiseSpeed),
     chargingTime |-> Zero,
     faultedTime |-> Zero,
     faults |-> 0,
     passengerMiles |-> RMul(RMul(M, v.cruiseSpeed), R(v.passengerCount))]

\* C9: when the random source reports no fault, a Ready vehicle with a full
\* battery advanced by M + e (M its maximum flight time, e > 0) ends Queued
\* with an empty battery, flight time M, distance M*cruiseSpeed, queued
\* time e, and no charging time, faulted time or fault.
C9_DrainThenQueue ==
    [][(/\ vehicles[1].currentState = "Ready"
        /\ vehicles[1].batteryLevel = vehicles[1].batteryCapacity
        /\ lastCall'.op = "updateState"
        /\ RGt(lastCall'.hours, getMaxFlightTime(vehicles[1]))
        /\ ~lastCall'.draw) =>
        /\ vehicles'[1].currentState = "Queued"
        /\ vehicles'[1].batteryLevel = Zero
        /\ vehicles'[1].stepStats =
                drainedFlightStats(vehicles[1], getMaxFlightTime(vehicles[1]),
                                   lastCall'.hours)
        /\ vehicles'[1].totalStats =
                StatsAdd(vehicles[1].totalStats,
                    drainedFlightStats(vehicles[1], getMaxFlightTime(vehicles[1]),
                                       lastCall'.hours))
      ]_vars

\* C9 witness: the first call on a fresh vehicle was updateState(M + 1/20)
\* and the random source reported no fault.
C9_Witness ==
    /\ calls = 1
    /\ lastCall.op = "updateState"
    /\ ~lastCall.draw
    /\ lastCall.hours = RAdd(fullBatteryFlightTime(vehicles[1]), <<1, 20>>)
    /\ vehicles[1].currentState = "Queued"

\* C10: updateState(0) on a Ready vehicle with battery > 0 leaves it Flying,
\* with the battery and every statistic unchanged and no fault trial.
C10_ReadyToFlyingOnZero ==
    [][(/\ vehicles[1].currentState = "Ready"
        /\ RGt(vehicles[1].batteryLevel, Zero)
        /\ lastCall'.op = "updateState"
        /\ lastCall'.hours = Zero) =>
        /\ vehicles'[1].currentState = "Flying"
        /\ vehicles'[1].batteryLevel = vehicles[1].batteryLevel
        /\ vehicles'[1].stepStats = ZeroStats
        /\ vehicles'[1].totalStats = vehicles[1].totalStats
        /\ ~lastCall'.trialed
      ]_vars

\* C10 witness: the first call on a fresh vehicle was updateState(0).
C10_Witness ==
    /\ calls = 1
    /\ lastCall.op = "updateState"
    /\ lastCall.hours = Zero
    /\ vehicles[1].currentState = "Flying"
    /\ vehicles[1].batteryLevel = vehicles[1].batteryCapacity

\* C11: updateState(hours) on a Queued vehicle leaves it Queued, with the
\* battery and every statistic but queued time unchanged, and adds exactly
\* hours to queued time; a vehicle leaves Queued only through startCharging.
C11_QueuedWaits ==
    [][vehicles[1].currentState = "Queued" =>
        /\ lastCall'.op = "updateState" =>
            /\ vehicles'[1].currentState = "Queued"
            /\ vehicles'[1].batteryLevel = vehicles[1].batteryLevel
            /\ vehicles'[1].stepStats =
                    [ZeroStats EXCEPT !.queuedTime = lastCall'.hours]
            /\ vehicles'[1].totalStats =
                    [vehicles[1].totalStats EXCEPT
                        !.queuedTime = RAdd(@, lastCall'.hours)]
            /\ ~lastCall'.trialed
        /\ vehicles'[1].currentState # "Queued" =>
            /\ lastCall'.op = "startCharging"
            /\ vehicles'[1].currentState = "Charging"
      ]_vars

\* C11 witness: updateState with a positive budget has run on a vehicle that
\* an earlier call had drained and left Queued.
C11_Witness ==
    /\ lastCall.op = "updateState"
    /\ RGt(lastCall.hours, Zero)
    /\ vehicles[1].currentState = "Queued"
    /\ vehicles[1].stepStats = [ZeroStats EXCEPT !.queuedTime = lastCall.hours]
    /\ RGt(vehicles[1].totalStats.flightTime, Zero)
    /\ RGt(vehicles[1].totalStats.queuedTime, lastCall.hours)

\* C12: startCharging on a vehicle that is not Queued, fly on a vehicle that
\* is not Flying and charge on a vehicle that is not Charging end in a
\* precondition error and leave the vehicle as it was; startCharging on a
\* Queued vehicle succeeds and leaves it Charging.
C12_GuardedOperationsFailFast ==
    [][/\ (lastCall'.op = "startCharging" /\ vehicles[1].currentState # "Queued") =>
            (lastCall'.threw /\ vehicles' = vehicles)
       /\ (lastCall'.op = "fly" /\ vehicles[1].currentState # "Flying") =>
            (lastCall'.threw /\ vehicles' = vehicles)
       /\ (lastCall'.op = "charge" /\ vehicles[1].currentState # "Charging") =>
            (lastCall'.threw /\ vehicles' = vehicles)
       /\ (lastCall'.op = "startCharging" /\ vehicles[1].currentState = "Queued") =>
            (~lastCall'.threw /\ vehicles'[1].currentState = "Charging")
       /\ (lastCall'.op = "fly" /\ vehicles[1].currentState = "Flying") =>
            ~lastCall'.threw
       /\ (lastCall'.op = "charge" /\ vehicles[1].currentState = "Charging") =>
            ~lastCall'.threw
      ]_vars

\* C12 witness: startCharging has failed on a vehicle that had flown and was
\* still Flying, with part of its battery left.
C12_Witness ==
    /\ lastCall.op = "startCharging"
    /\ lastCall.threw
    /\ vehicles[1].currentState = "Flying"
    /\ RGt(vehicles[1].totalStats.flightTime, Zero)
    /\ RGt(vehicles[1].batteryLevel, Zero)

\* The configured step, in hours
configuredStep == RMul(simTimeStepSeconds, SECONDS_TO_HOURS)

\* Clock values in [0, simHours]: the quarter hours, and half a step before
\* the horizon
ProbeTimes ==
    {t \in {Norm(k, 4) : k \in 0..(4 * MaxSimHours)} : RLe(t, simHours)}
        \cup {RSub(simHours, RMul(configuredStep, Half))}

\* What C13 expects of the step computed at clock value now
stepFits(now, step) ==
    /\ RLe(step, RSub(simHours, now))
    /\ RGe(RSub(simHours, now), configuredStep) => step = configuredStep
    /\ RLt(RSub(simHours, now), configuredStep) => step = RSub(simHours, now)
    /\ now = simHours => step = Zero

\* C13: for every clock value in [0, simHours], nextTimeStep never exceeds
\* the time remaining, is the configured step when a full step remains, the
\* remainder when less remains, and 0 at the horizon; the step the loop
\* holds is the one computed at the current clock value.
C13_NextTimeStepIsMin ==
    /\ \A t \in ProbeTimes : stepFits(t, nextTimeStep(t))
    /\ pc # "constructed" => stepFits(currentTime, timeStep)

\* C13 witness: the loop is in its last tick, which is shorter than the
\* configured step.
C13_Witness ==
    /\ pc = "update"
    /\ RGt(currentTime, Zero)
    /\ RGt(timeStep, Zero)
    /\ RLt(timeStep, configuredStep)
    /\ RAdd(currentTime, timeStep) = simHours

\* What C14 expects of every state of the run: the clock is within the
\* horizon, a tick in progress has a positive delta, the ticks taken are no
\* more than the horizon needs, and on exit the clock is at the horizon
tickWithinHorizon ==
    /\ RLe(Zero, currentTime)
    /\ RLe(currentTime, simHours)
    /\ pc \in {"release", "update", "manage", "clock"} =>
        /\ RGt(timeStep, Zero)
        /\ RLe(RAdd(currentTime, timeStep), simHours)
    /\ stepCount > 0 => RLt(RMul(R(stepCount - 1), configuredStep), simHours)
    /\ pc = "done" => currentTime = simHours

\* C14: the simulation loop terminates: every tick has a positive delta,
\* the clock never exceeds the horizon, the run reaches its end after
\* finitely many ticks, and on exit the clock equals the horizon.
C14_LoopTerminates == []tickWithinHorizon /\ <>(pc = "done")

\* C14 witness: the run has ended after a full tick and a shorter last one.
C14_Witness ==
    /\ pc = "done"
    /\ stepCount = 2
    /\ currentTime = simHours
    /\ RLt(simHours, RMul(R(2), configuredStep))

\* The queue and the membership set after one more enqueue sweep
sweptOnce == enqueueSweep(chargingQueue, queuedVehicles, vehicles)

\* C15: the enqueue sweep is idempotent: a second sweep right after the
\* first, over the same vehicle states, leaves the queue (contents and
\* order) and the membership set as the first sweep left them.
C15_EnqueueSweepIdempotent ==
    enqueueSweep(sweptOnce.queue, sweptOnce.members, vehicles) = sweptOnce

\* C15 witness: the sweep about to run appends a newly Queued vehicle behind
\* a vehicle that is already waiting.
C15_Witness ==
    /\ pc = "manage"
    /\ chargingQueue # <<>>
    /\ newlyQueued(vehicles, queuedVehicles) # <<>>
    /\ sweptOnce.queue # chargingQueue

\* C16: the membership set and the wait queue hold the same vehicles, and
\* the set has as many members as the queue has entries.
C16_SetMatchesQueue ==
    /\ queuedVehicles = QueueMembers
    /\ Cardinality(queuedVehicles) = Len(chargingQueue)

\* C16 witness: a vehicle has been popped and started charging while
\* another, appended by a later sweep, is waiting in queue and set.
C16_Witness ==
    /\ pc = "clock"
    /\ Len(started) >= 1
    /\ chargingQueue # <<>>
    /\ enqueued[Len(enqueued)].step > started[1].step
    /\ enqueued[Len(enqueued)].vehicle \in queuedVehicles

\* C17: the step statistics are reset at the start of every updateState
\* call: afterwards they hold only what that call accrued.  Its time buckets
\* sum to no more than the call's budget, it counts at most the one fault
\* that ended the call, its distance and passenger miles are those of its
\* own flight time, and a call with no budget leaves them all zero.
C17_StepStatsReset ==
    [][lastCall'.op = "updateState" =>
        /\ RLe(timeCredited(vehicles'[1].stepStats), lastCall'.hours)
        /\ vehicles'[1].stepStats.faults \in {0, 1}
        /\ vehicles'[1].stepStats.faults = 1 =>
            /\ vehicles[1].currentState # "Faulted"
            /\ vehicles'[1].currentState = "Faulted"
        /\ vehicles'[1].stepStats.distanceTraveled =
                RMul(vehicles'[1].stepStats.flightTime, vehicles[1].cruiseSpeed)
        /\ vehicles'[1].stepStats.passengerMiles =
                RMul(vehicles'[1].stepStats.distanceTraveled,
                     R(vehicles[1].passengerCount))
        /\ lastCall'.hours = Zero => vehicles'[1].stepStats = ZeroStats
      ]_vars

\* C17 witness: a second updateState call has flown, after a first that
\* had flown as well, and its step statistics differ from the cumulative.
C17_Witness ==
    /\ calls = 2
    /\ lastCall.op = "updateState"
    /\ vehicles[1].currentState = "Flying"
    /\ RGt(vehicles[1].stepStats.flightTime, Zero)
    /\ RGt(vehicles[1].totalStats.flightTime, vehicles[1].stepStats.flightTime)
    /\ RLe(timeCredited(vehicles[1].stepStats), lastCall.hours)

\* No field of the statistics a is above that field of b
StatsLe(a, b) ==
    /\ RLe(a.flightTime, b.flightTime)
    /\ RLe(a.queuedTime, b.queuedTime)
    /\ RLe(a.distanceTraveled, b.distanceTraveled)
    /\ RLe(a.chargingTime, b.chargingTime)
    /\ RLe(a.faultedTime, b.faultedTime)
    /\ a.faults <= b.faults
    /\ RLe(a.passengerMiles, b.passengerMiles)

\* C18: the cumulative statistics are the sum of the step statistics of all
\* updateState calls since creation: they start at zero, every updateState
\* call adds its step statistics to them, no other call changes them, and
\* no field ever decreases.
C18_TotalIsSumOfSteps ==
    /\ [](calls = 0 => vehicles[1].totalStats = ZeroStats)
    /\ [][/\ lastCall'.op = "updateState" =>
                vehicles'[1].totalStats =
                    StatsAdd(vehicles[1].totalStats, vehicles'[1].stepStats)
          /\ lastCall'.op # "updateState" =>
                vehicles'[1].totalStats = vehicles[1].totalStats
          /\ StatsLe(vehicles[1].totalStats, vehicles'[1].totalStats)
         ]_vars

\* C18 witness: a vehicle was drained by one call, started charging, and
\* in a third call charged and flew again.
C18_Witness ==
    /\ calls = 3
    /\ lastCall.op = "updateState"
    /\ RGt(vehicles[1].stepStats.chargingTime, Zero)
    /\ RGt(vehicles[1].stepStats.flightTime, Zero)
    /\ RGt(vehicles[1].totalStats.flightTime, vehicles[1].stepStats.flightTime)
    /\ RGt(vehicles[1].totalStats.queuedTime, Zero)

\* The sum of the cumulative statistics of the vehicles 1..i that are of
\* manufacturer m
RECURSIVE cohortTotal(_, _)
cohortTotal(m, i) ==
    IF i = 0
    THEN ZeroStats
    ELSE IF vehicles[i].manufacturer = m
    THEN StatsAdd(cohortTotal(m, i - 1), vehicles[i].totalStats)
    ELSE cohortTotal(m, i - 1)

\* C19: the flight time, distance, charging time, fault count and passenger
\* miles accumulated for a manufacturer are the sums of the cumulative
\* statistics of its vehicles, after every step of the run and so at the end
\* of every tick.
C19_CohortIsSumOfVehicles ==
    \A m \in DOMAIN typeStats :
        /\ typeStats[m].totalFlightTime = cohortTotal(m, Len(vehicles)).flightTime
        /\ typeStats[m].totalDistance = cohortTotal(m, Len(vehicles)).distanceTraveled
        /\ typeStats[m].totalChargingTime = cohortTotal(m, Len(vehicles)).chargingTime
        /\ typeStats[m].totalFaults = cohortTotal(m, Len(vehicles)).faults
        /\ typeStats[m].totalPassengerMiles = cohortTotal(m, Len(vehicles)).passengerMiles

\* C19 witness: at the end of a later tick, two vehicles of one manufacturer
\* have both flown, one has faulted, and charging time has been folded in.
C19_Witness ==
    /\ pc = "clock"
    /\ stepCount >= 1
    /\ Len(vehicles) = 2
    /\ vehicles[1].manufacturer = vehicles[2].manufacturer
    /\ RGt(vehicles[1].totalStats.flightTime, Zero)
    /\ RGt(vehicles[2].totalStats.flightTime, vehicles[1].totalStats.flightTime)
    /\ \E m \in DOMAIN typeStats :
        /\ typeStats[m].totalFaults = 1
        /\ RGt(typeStats[m].totalChargingTime, Zero)

\* The vehicles in the given state
InState(state) == {i \in Fleet : vehicles[i].currentState = state}

\* C21 as stated: in the scenario (three vehicles of one archetype with a
\* maximum flight time under an hour, one charger, one hour, one-second
\* steps, no fault) a vehicle reaches Queued before the horizon, and exactly
\* one of the queued vehicles reaches Charging while the others remain
\* Queued.
C21_ExactlyOneReachesCharging ==
    pc = "done" =>
        /\ Len(enqueued) >= 1
        /\ Len(started) = 1
        /\ Cardinality(InState("Charging")) = 1
        /\ Cardinality(InState("Queued")) = Len(enqueued) - 1

\* C21 amended: in the scenario all three vehicles reach Queued before the
\* horizon and the first one queued reaches Charging in the tick it queued;
\* at any time at most one vehicle is Charging and the vehicles waiting in
\* the queue are Queued; exactly one vehicle reaches Charging before the
\* horizon, the other two being Queued at the end, when the maximum flight
\* time plus the time to charge is at least the hour; with a shorter cycle
\* the first vehicle is flying again and a second one is Charging at the end.
C21_OneChargesOthersWait ==
    /\ Cardinality(InState("Charging")) <= 1
    /\ \A k \in 1..Len(chargingQueue) :
            vehicles[chargingQueue[k]].currentState = "Queued"
    /\ pc = "done" =>
        /\ Len(enqueued) >= 3
        /\ enqueued[1].step < stepCount
        /\ Len(started) >= 1
        /\ started[1].vehicle = enqueued[1].vehicle
        /\ started[1].step = enqueued[1].step
        /\ IF RGe(RAdd(fullBatteryFlightTime(vehicles[1]), vehicles[1].timeToCharge), simHours)
           THEN /\ Len(started) = 1
                /\ InState("Charging") = {started[1].vehicle}
                /\ InState("Queued") = Fleet \ {started[1].vehicle}
           ELSE /\ Len(started) = 2
                /\ InState("Flying") = {started[1].vehicle}
                /\ InState("Charging") = {started[2].vehicle}
                /\ Cardinality(InState("Queued")) = 1

\* C21 witness: the scenario has run to the horizon with the first vehicle
\* Charging and the other two waiting, Queued, in the queue.
C21_Witness ==
    /\ pc = "done"
    /\ numVehicles = 3
    /\ stepCount = 3600
    /\ vehicles[1].currentState = "Charging"
    /\ chargingQueue = <<2, 3>>
    /\ InState("Queued") = {2, 3}

\* Every Queued vehicle is in the wait queue, and no vehicle waits while a
\* charger is empty: what the state is like when the enqueue sweep has
\* run and the assignment after it
enqueuedThenAssigned ==
    /\ \A i \in InState("Queued") : i \in QueueMembers
    /\ chargingQueue # <<>> => \A i \in DOMAIN chargingStations : chargingStations[i] # NULL

\* C22: every tick runs its phases in order.  The release phase only
\* empties chargers; then every vehicle is advanced by the tick's time step
\* and its step statistics are folded into its manufacturer's totals; then
\* the newly Queued vehicles are enqueued and after that the empty chargers
\* assigned; only then does the clock advance, by the tick's time step.
C22_TickPhasesInOrder ==
    /\ [](pc = "manage" => C19_CohortIsSumOfVehicles)
    /\ [](pc = "clock" => enqueuedThenAssigned)
    /\ [][/\ pc = "release" =>
              /\ pc' = "update"
              /\ UNCHANGED <<vehicles, chargingQueue, queuedVehicles, typeStats, currentTime>>
              /\ \A i \in DOMAIN chargingStations :
                      chargingStations'[i] \in {chargingStations[i], NULL}
          /\ pc = "update" =>
              /\ pc' = "manage"
              /\ UNCHANGED <<schedulerVars, currentTime, timeStep>>
              /\ \A i \in Fleet :
                  /\ vehicles'[i].totalStats =
                          StatsAdd(vehicles[i].totalStats, vehicles'[i].stepStats)
                  /\ vehicles[i].currentState \in {"Queued", "Faulted"} =>
                          timeCredited(vehicles'[i].stepStats) = timeStep
          /\ pc = "manage" =>
              /\ pc' = "clock"
              /\ UNCHANGED <<typeStats, currentTime, timeStep>>
          /\ pc = "clock" =>
              /\ pc' \in {"release", "done"}
              /\ currentTime' = RAdd(currentTime, timeStep)
              /\ stepCount' = stepCount + 1
              /\ UNCHANGED <<vehicles, schedulerVars, typeStats>>
          /\ currentTime' # currentTime => pc = "clock"
         ]_vars

\* C22 witness: at the end of a tick after the first, a vehicle that the
\* tick's advance left Queued was enqueued and started charging in that
\* same tick.
C22_Witness ==
    /\ pc = "clock"
    /\ stepCount >= 1
    /\ started # <<>>
    /\ started[Len(started)].step = stepCount
    /\ enqueued[Len(enqueued)].step = stepCount
    /\ enqueued[Len(enqueued)].vehicle = started[Len(started)].vehicle
    /\ vehicles[started[Len(started)].vehicle].currentState = "Charging"

\* C23: when the assignment of a tick has run, every charger whose vehicle
\* left Charging during the tick's advance has been emptied: at the end of
\* every tick each occupied charger holds a vehicle that is Charging.
C23_OccupiedMeansCharging ==
    pc \in {"clock", "done"} =>
        \A i \in OccupiedChargers :
            vehicles[chargingStations[i]].currentState = "Charging"

\* C24: no vehicle is referenced by more than one charger.
C24_OneChargerPerVehicle ==
    \A i, j \in OccupiedChargers :
        i # j => chargingStations[i] # chargingStations[j]

\* C25: when a fault occurs inside updateState(hours), the faulted time
\* credited by the call is the budget not yet consumed at the fault: hours
\* less the charging time and the flight time credited by the call.
C25_FaultedTimeIsRemainder ==
    [][(lastCall'.op = "updateState" /\ vehicles'[1].stepStats.faults = 1) =>
        vehicles'[1].stepStats.faultedTime =
            RSub(lastCall'.hours,
                 RAdd(vehicles'[1].stepStats.chargingTime,
                      vehicles'[1].stepStats.flightTime))
      ]_vars

\* The state changes one statement can make
Transitions ==
    {<<"Ready", "Flying">>, <<"Flying", "Queued">>, <<"Flying", "Faulted">>,
     <<"Charging", "Ready">>, <<"Queued", "Charging">>}

\* The state changes one updateState call can add up to: chains of
\* Ready -> Flying, Flying -> Queued, Flying -> Faulted, Charging -> Ready
advanceChanges ==
    {<<"Ready", "Flying">>, <<"Ready", "Queued">>, <<"Ready", "Faulted">>,
     <<"Flying", "Queued">>, <<"Flying", "Faulted">>,
     <<"Charging", "Ready">>, <<"Charging", "Flying">>,
     <<"Charging", "Queued">>, <<"Charging", "Faulted">>}

\* One pass through the switch of updateState changes the state of v by
\* one of the transitions of updateState, or not at all
oneIterationAllowed(v) ==
    \A hours \in Budgets(v), draw \in BOOLEAN :
        /\ \/ switchState(v, hours, draw).v.currentState = v.currentState
           \/ <<v.currentState, switchState(v, hours, draw).v.currentState>>
                    \in Transitions \ {<<"Queued", "Charging">>}
        /\ (v.currentState = "Flying"
                /\ switchState(v, hours, draw).v.currentState = "Queued") =>
                    switchState(v, hours, draw).v.batteryLevel = Zero

\* C26: the only state changes are Ready -> Flying, Flying -> Queued,
\* Flying -> Faulted and Charging -> Ready, all inside updateState, and
\* Queued -> Charging, only by startCharging; Flying -> Queued happens only
\* with a depleted battery.  One pass through the switch of updateState
\* makes at most one of these changes, a whole call a chain of them.
C26_OnlyAllowedTransitions ==
    /\ []oneIterationAllowed(vehicles[1])
    /\ [][/\ lastCall'.op = "updateState" =>
              \/ vehicles'[1].currentState = vehicles[1].currentState
              \/ <<vehicles[1].currentState, vehicles'[1].currentState>> \in advanceChanges
          /\ lastCall'.op = "startCharging" =>
              \/ vehicles'[1].currentState = vehicles[1].currentState
              \/ <<vehicles[1].currentState, vehicles'[1].currentState>>
                      = <<"Queued", "Charging">>
          /\ lastCall'.op \in {"fly", "charge"} =>
              \/ vehicles'[1].currentState = vehicles[1].currentState
              \/ <<vehicles[1].currentState, vehicles'[1].currentState>>
                      \in Transitions \ {<<"Queued", "Charging">>}
          /\ (vehicles'[1].currentState = "Queued"
                  /\ vehicles[1].currentState # "Queued") =>
                      vehicles'[1].batteryLevel = Zero
         ]_vars

\* C26 witness: one updateState call has taken a Charging vehicle through
\* Ready and Flying to Queued.
C26_Witness ==
    /\ lastCall.op = "updateState"
    /\ vehicles[1].currentState = "Queued"
    /\ vehicles[1].batteryLevel = Zero
    /\ RGt(vehicles[1].stepStats.chargingTime, Zero)
    /\ RGt(vehicles[1].stepStats.flightTime, Zero)
    /\ RGt(vehicles[1].stepStats.queuedTime, Zero)

\* The time a vehicle needs to charge to capacity
timeToFull(v) ==
    RDiv(RSub(v.batteryCapacity, v.batteryLevel),
         RDiv(v.batteryCapacity, v.timeToCharge))

\* C27: when updateState(hours) on a Charging vehicle has more budget than
\* the battery needs to reach capacity, the call ends in Flying, Queued or
\* Faulted, never in Ready or Charging; the charging time credited is the
\* time needed to reach capacity, and the rest of the budget was flown:
\* without a fault, for the rest of the budget or the maximum flight time,
\* whichever is shorter.
C27_FullChargeFliesOn ==
    [][(/\ vehicles[1].currentState = "Charging"
        /\ lastCall'.op = "updateState"
        /\ RGt(lastCall'.hours, timeToFull(vehicles[1]))) =>
        /\ vehicles'[1].currentState \in {"Flying", "Queued", "Faulted"}
        /\ vehicles'[1].stepStats.chargingTime = timeToFull(vehicles[1])
        /\ RGt(vehicles'[1].stepStats.flightTime, Zero)
        /\ lastCall'.trialed
        /\ vehicles'[1].stepStats.faults = 0 =>
            vehicles'[1].stepStats.flightTime =
                RMin(RSub(lastCall'.hours, timeToFull(vehicles[1])),
                     fullBatteryFlightTime(vehicles[1]))
      ]_vars

\* C27 witness: a call charged an empty battery to capacity in the time to
\* charge and flew on in the same call, where a fault ended the flight.
C27_Witness ==
    /\ lastCall.op = "updateState"
    /\ vehicles[1].currentState = "Faulted"
    /\ vehicles[1].stepStats.chargingTime = vehicles[1].timeToCharge
    /\ RGt(vehicles[1].stepStats.flightTime, Zero)
    /\ vehicles[1].stepStats.faults = 1

\* The energy a charge step with the given budget adds to the battery of v
energyAdded(v, hours) ==
    RMin(RSub(v.batteryCapacity, v.batteryLevel),
         RMul(RDiv(v.batteryCapacity, v.timeToCharge), hours))

\* The charging sessions vehicle i has started
sessionsStarted(i) ==
    Cardinality({k \in 1..Len(started) : started[k].vehicle = i})

\* C28: a charge step adds min(capacity - level, rate * budget) to the
\* battery, with rate = capacity / timeToCharge, and credits the energy
\* added divided by the rate as charging time; so every charging session of
\* the simulation that runs to completion, over however many ticks, credits
\* timeToCharge in total and ends with the battery at capacity (what was
\* flown after it in the same tick is all that is missing).
C28_ChargeStepAndSession ==
    /\ [](\A i \in Fleet :
            vehicles[i].totalStats.chargingTime =
                IF vehicles[i].currentState = "Charging"
                THEN RAdd(RMul(R(sessionsStarted(i) - 1), vehicles[i].timeToCharge),
                          RDiv(vehicles[i].batteryLevel,
                               RDiv(vehicles[i].batteryCapacity, vehicles[i].timeToCharge)))
                ELSE RMul(R(sessionsStarted(i)), vehicles[i].timeToCharge))
    /\ [][pc = "update" =>
            \A i \in Fleet :
                vehicles[i].currentState = "Charging" =>
                    /\ vehicles'[i].stepStats.chargingTime =
                            RDiv(energyAdded(vehicles[i], timeStep),
                                 RDiv(vehicles[i].batteryCapacity, vehicles[i].timeToCharge))
                    /\ vehicles'[i].currentState = "Charging" =>
                            vehicles'[i].batteryLevel =
                                RAdd(vehicles[i].batteryLevel,
                                     energyAdded(vehicles[i], timeStep))
                    /\ vehicles'[i].currentState # "Charging" =>
                            vehicles'[i].batteryLevel =
                                RSub(vehicles[i].batteryCapacity,
                                     RMul(vehicles'[i].stepStats.distanceTraveled,
                                          vehicles[i].energyUsePerMile))
         ]_vars

\* C28 witness: a charging session that took more than one tick has run to
\* completion and credited the time to charge.
C28_Witness ==
    \E i \in Fleet :
        /\ sessionsStarted(i) = 1
        /\ vehicles[i].currentState = "Flying"
        /\ vehicles[i].totalStats.chargingTime = vehicles[i].timeToCharge
        /\ RGt(vehicles[i].timeToCharge, timeStep)
        /\ RGt(vehicles[i].stepStats.chargingTime, Zero)
        /\ RLt(vehicles[i].stepStats.chargingTime, vehicles[i].timeToCharge)

\* C29: updateState(d) with d > 0 on a Flying vehicle whose battery holds
\* more than d hours of flight, and with no fault, leaves the vehicle Flying;
\* flight time grows by d, distance by d * cruiseSpeed, passenger miles by
\* d * cruiseSpeed * passengerCount, the battery falls by
\* d * cruiseSpeed * energyUsePerMile, and queued, charging and faulted time
\* stay as they were.
C29_FlyingStaysFlying ==
    [][(/\ vehicles[1].currentState = "Flying"
        /\ lastCall'.op = "updateState"
        /\ RGt(lastCall'.hours, Zero)
        /\ ~lastCall'.draw
        /\ RLt(energyNeededForFullFlight(vehicles[1], lastCall'.hours),
               vehicles[1].batteryLevel)) =>
        /\ vehicles'[1].currentState = "Flying"
        /\ vehicles'[1].totalStats.flightTime =
               RAdd(vehicles[1].totalStats.flightTime, lastCall'.hours)
        /\ vehicles'[1].totalStats.distanceTraveled =
               RAdd(vehicles[1].totalStats.distanceTraveled,
                    RMul(lastCall'.hours, vehicles[1].cruiseSpeed))
        /\ vehicles'[1].totalStats.passengerMiles =
               RAdd(vehicles[1].totalStats.passengerMiles,
                    RMul(RMul(lastCall'.hours, vehicles[1].cruiseSpeed),
                         R(vehicles[1].passengerCount)))
        /\ vehicles'[1].batteryLevel =
               RSub(vehicles[1].batteryLevel,
                    RMul(RMul(lastCall'.hours, vehicles[1].cruiseSpeed),
                         vehicles[1].energyUsePerMile))
        /\ vehicles'[1].totalStats.queuedTime = vehicles[1].totalStats.queuedTime
        /\ vehicles'[1].totalStats.chargingTime = vehicles[1].totalStats.chargingTime
        /\ vehicles'[1].totalStats.faultedTime = vehicles[1].totalStats.faultedTime
        /\ vehicles'[1].totalStats.faults = vehicles[1].totalStats.faults
      ]_vars

\* C29 witness: a vehicle already Flying was advanced again without a fault
\* and is still Flying, with this call's flight on top of the earlier one.
C29_Witness ==
    /\ calls >= 2
    /\ lastCall.op = "updateState"
    /\ ~lastCall.draw
    /\ lastCall.trialed
    /\ RGt(lastCall.hours, Zero)
    /\ vehicles[1].currentState = "Flying"
    /\ vehicles[1].stepStats.flightTime = lastCall.hours
    /\ RGt(vehicles[1].totalStats.flightTime, vehicles[1].stepStats.flightTime)
    /\ RGt(vehicles[1].batteryLevel, Zero)
    /\ vehicles[1].totalStats.chargingTime = Zero
    /\ vehicles[1].totalStats.queuedTime = Zero

\* The free chargers up to charger i: charger i is the k-th free one
freeUpTo(i) ==
    Cardinality({j \in 1..i : chargingStations[j] = NULL})

\* C30: assignAvailableChargers pops one vehicle for each free charger, in
\* queue order, while the queue lasts.  A popped vehicle that is Queued gets
\* the charger and is started charging, which cannot fail; a popped vehicle
\* that is not Queued leaves the queue and the membership set, its charger
\* stays empty and the vehicle is as it was.  Nothing else changes.
C30_OnlyQueuedGetSlot ==
    [][(pc = "filled" /\ pc' = "assigned") =>
        /\ \A i \in 1..numChargers :
              chargingStations'[i] =
                  IF chargingStations[i] # NULL
                  THEN chargingStations[i]
                  ELSE IF /\ freeUpTo(i) <= Len(chargingQueue)
                          /\ vehicles[chargingQueue[freeUpTo(i)]].currentState = "Queued"
                  THEN chargingQueue[freeUpTo(i)]
                  ELSE NULL
        /\ \A k \in DOMAIN chargingQueue :
              IF k <= freeUpTo(numChargers)
              THEN /\ chargingQueue[k] \notin queuedVehicles'
                   /\ \A j \in DOMAIN chargingQueue' : chargingQueue'[j] # chargingQueue[k]
                   /\ IF vehicles[chargingQueue[k]].currentState = "Queued"
                      THEN /\ vehicles'[chargingQueue[k]].currentState = "Charging"
                           /\ ~startCharging(vehicles[chargingQueue[k]]).threw
                      ELSE vehicles'[chargingQueue[k]] = vehicles[chargingQueue[k]]
              ELSE /\ chargingQueue[k] \in queuedVehicles'
                   /\ chargingQueue'[k - freeUpTo(numChargers)] = chargingQueue[k]
                   /\ vehicles'[chargingQueue[k]] = vehicles[chargingQueue[k]]
        /\ \A v \in 1..numVehicles :
              v \notin queuedVehicles => vehicles'[v] = vehicles[v]
        /\ queuedVehicles' \subseteq queuedVehicles
      ]_vars

\* C30 witness: a vehicle that was not Queued has been popped for a free
\* charger, which is still empty, while a Queued vehicle behind it got the
\* next one.
C30_Witness ==
    /\ pc = "assigned"
    /\ numChargers = 2
    /\ chargingStations[1] = NULL
    /\ chargingStations[2] # NULL
    /\ chargingQueue = <<>>
    /\ queuedVehicles = {}
    /\ Len(started) = 1
    /\ vehicles[chargingStations[2]].currentState = "Charging"
    /\ \E v \in 1..numVehicles : vehicles[v].currentState \in {"Ready", "Flying", "Faulted"}

\* The times the vehicles of manufacturer m have left Flying when a tick is
\* over: a flight ends Queued, and the enqueue sweep of the tick records it,
\* or it ends Faulted, which is for good
flightsLeft(m) ==
    Cardinality({k \in 1..Len(enqueued) : vehicles[enqueued[k].vehicle].manufacturer = m})
    + Cardinality({i \in InState("Faulted") : vehicles[i].manufacturer = m})

\* The times the vehicles of manufacturer m have left Charging: the charging
\* sessions started less the ones still under way
chargesLeft(m) ==
    Cardinality({k \in 1..Len(started) : vehicles[started[k].vehicle].manufacturer = m})
    - Cardinality({i \in InState("Charging") : vehicles[i].manufacturer = m})

\* C31: at the end of a run the flights counted for a manufacturer are the
\* times its vehicles left Flying and the charges counted are the times its
\* vehicles left Charging, whatever the tick size.
C31_SessionsAreStateExits ==
    pc = "done" =>
        \A m \in DOMAIN typeStats :
            /\ typeStats[m].totalFlights = flightsLeft(m)
            /\ typeStats[m].totalCharges = chargesLeft(m)

RECURSIVE updateInOrder(_, _, _, _, _, _, _)
updateInOrder(order, k, fleet, ts, ls, step, draws) ==
    IF k > Len(order)
    THEN [vehicles |-> fleet, typeStats |-> ts, lastState |-> ls]
    ELSE LET v == advance(fleet[order[k]], step, draws[order[k]]).v
             u == updateVehicleStats(order[k], v, ts, ls)
         IN  updateInOrder(order, k + 1, [fleet EXCEPT ![order[k]] = v],
                           u.typeStats, u.lastState, step, draws)

\* The orders in which a fleet of n vehicles can be visited
VisitOrders(n) ==
    {order \in [1..n -> 1..n] : \A a, b \in 1..n : a # b => order[a] # order[b]}

\* C33: within a tick the outcome of a vehicle does not depend on the other
\* vehicles.  Whatever faults are drawn for the vehicles, advancing the
\* fleet in any order gives every vehicle the state, battery and statistics,
\* and every manufacturer the totals, that the fleet order gives.
C33_OrderIndependent ==
    pc = "update" =>
        \A draws \in [1..numVehicles -> BOOLEAN] :
            \A order \in VisitOrders(numVehicles) :
                updateInOrder(order, 1, vehicles, typeStats, lastState, timeStep, draws)
                    = updateAllVehicles(1, vehicles, typeStats, lastState, timeStep, draws)

\* C33 witness: a fleet of two vehicles of one manufacturer is about to be
\* advanced, the first Charging and the second waiting for the charger.
C33_Witness ==
    /\ pc = "update"
    /\ stepCount >= 1
    /\ numVehicles = 2
    /\ vehicles[1].manufacturer = vehicles[2].manufacturer
    /\ vehicles[1].currentState = "Charging"
    /\ vehicles[2].currentState = "Queued"
    /\ RGt(timeStep, Zero)

\* C34: the chargers, the wait queue and the membership set change only in
\* the release, enqueue and assign steps.  Advancing the vehicles, starting
\* the run and advancing the clock leave all three as they were; the
\* release step changes nothing but chargers; and all the scheduler does to
\* a vehicle is to take it from Queued to Charging, its battery level and
\* cumulative statistics untouched.
C34_SchedulerOwnsItsState ==
    [][/\ pc \in {"constructed", "update", "clock"} =>
            UNCHANGED <<chargingStations, chargingQueue, queuedVehicles>>
       /\ pc = "release" =>
            UNCHANGED <<vehicles, chargingQueue, queuedVehicles, typeStats, currentTime>>
       /\ pc = "manage" =>
            \A i \in Fleet :
                \/ vehicles'[i] = vehicles[i]
                \/ /\ vehicles[i].currentState = "Queued"
                   /\ vehicles'[i].currentState = "Charging"
                   /\ vehicles'[i].batteryLevel = vehicles[i].batteryLevel
                   /\ vehicles'[i].totalStats = vehicles[i].totalStats
                   /\ \E c \in DOMAIN chargingStations :
                         chargingStations[c] = NULL /\ chargingStations'[c] = i
      ]_vars

\* C34 witness: the assignment of this tick has just taken a vehicle with
\* flights behind it from Queued to Charging, while another one waits.
C34_Witness ==
    /\ pc = "clock"
    /\ started # <<>>
    /\ started[Len(started)].step = stepCount
    /\ vehicles[started[Len(started)].vehicle].currentState = "Charging"
    /\ RGt(vehicles[started[Len(started)].vehicle].totalStats.flightTime, Zero)
    /\ chargingQueue # <<>>

\* C35: every vehicle that is Charging is held by a charger, in every
\* state of the run; so the vehicles Charging are never more than the
\* chargers.
C35_ChargingHasCharger ==
    /\ \A i \in InState("Charging") :
          \E c \in DOMAIN chargingStations : chargingStations[c] = i
    /\ Cardinality(InState("Charging")) <= numChargers

\* C35 witness: a vehicle is still Charging, part charged, after the release
\* step of a later tick, while another vehicle waits for the charger.
C35_Witness ==
    /\ pc = "update"
    /\ chargingQueue # <<>>
    /\ \E i \in InState("Charging") :
          /\ RGt(vehicles[i].batteryLevel, Zero)
          /\ \E c \in DOMAIN chargingStations : chargingStations[c] = i

\* C36: every vehicle in the wait queue is Queued with an empty battery, in
\* every state of the run; so startCharging does not fail on a vehicle the
\* assignment pops, and fly and charge, which updateState calls on a Flying
\* and on a Charging vehicle, do not fail either.
C36_QueueHoldsQueuedEmpty ==
    /\ \A i \in QueueMembers :
          /\ vehicles[i].currentState = "Queued"
          /\ vehicles[i].batteryLevel = Zero
          /\ ~startCharging(vehicles[i]).threw
    /\ \A i \in InState("Flying") : ~fly(vehicles[i], timeStep, FALSE).threw
    /\ \A i \in InState("Charging") : ~charge(vehicles[i], timeStep).threw

\* C36 witness: a vehicle has waited in the queue through an advance, behind
\* a vehicle that is Charging, and is about to be looked at by the scheduler.
C36_Witness ==
    /\ pc = "manage"
    /\ InState("Charging") # {}
    /\ \E i \in QueueMembers :
          /\ RGt(vehicles[i].stepStats.queuedTime, Zero)
          /\ vehicles[i].batteryLevel = Zero

\* C37: right after the assignment of a tick, the wait queue is empty or
\* no charger is empty.
C37_NoWaitingBesideEmptyCharger ==
    pc = "clock" =>
        \/ chargingQueue = <<>>
        \/ \A c \in 1..numChargers : chargingStations[c] # NULL

\* C37 witness: the assignment has just filled a charger from the queue and
\* a vehicle is left waiting, every charger taken.
C37_Witness ==
    /\ pc = "clock"
    /\ chargingQueue # <<>>
    /\ started # <<>>
    /\ started[Len(started)].step = stepCount
    /\ \A c \in 1..numChargers : chargingStations[c] # NULL

\* C38: the cumulative fault count of a vehicle is 1 when the vehicle is
\* Faulted and 0 otherwise, at all times; so the faults counted for a
\* manufacturer are never more than its vehicles.
C38_OneFaultPerVehicle ==
    /\ \A i \in Fleet :
          vehicles[i].totalStats.faults =
              IF vehicles[i].currentState = "Faulted" THEN 1 ELSE 0
    /\ \A m \in DOMAIN typeStats :
          typeStats[m].totalFaults <= typeStats[m].vehicleCount

\* C38 witness: both vehicles of a manufacturer have faulted, one of them in
\* an earlier tick, and the manufacturer's faults are as many as its vehicles.
C38_Witness ==
    /\ pc = "clock"
    /\ numVehicles = 2
    /\ InState("Faulted") = {1, 2}
    /\ vehicles[1].manufacturer = vehicles[2].manufacturer
    /\ vehicles[1].stepStats.faults = 0
    /\ vehicles[2].stepStats.faults = 1
    /\ typeStats[vehicles[1].manufacturer].totalFaults = 2

\* The ticks of the configured step a vehicle needs to charge to capacity
ticksToFull(v) ==
    CHOOSE n \in 0..(2 * MaxSimHours) :
        /\ RGe(RMul(R(n), configuredStep), timeToFull(v))
        /\ \A m \in 0..(2 * MaxSimHours) :
              RGe(RMul(R(m), configuredStep), timeToFull(v)) => n <= m

\* The vehicles ahead of vehicle i in the wait queue
aheadOf(i) ==
    {chargingQueue[k] : k \in {k \in 1..Len(chargingQueue) :
                                 \E l \in (k + 1)..Len(chargingQueue) : chargingQueue[l] = i}}

\* The ticks the vehicles 1..j that are Charging or ahead of i in the queue
\* keep a charger, one after the other: each charges to capacity, and its
\* charger is released in the tick after that
RECURSIVE ticksBefore(_, _)
ticksBefore(i, j) ==
    IF j = 0
    THEN 0
    ELSE ticksBefore(i, j - 1)
         + (IF vehicles[j].currentState = "Charging" \/ j \in aheadOf(i)
            THEN ticksToFull(vehicles[j]) + 1
            ELSE 0)

\* The time the run still has after the tick in progress
timeAfterTick == RSub(simHours, RAdd(currentTime, timeStep))

\* Vehicle i waits in the queue at the end of a tick, and the horizon leaves
\* the time for the vehicles before it, or one tick for a release
canStillStart(i) ==
    /\ pc = "clock"
    /\ i \in Fleet
    /\ i \in QueueMembers
    /\ RLe(RMul(R(IF ticksBefore(i, Len(vehicles)) = 0
                  THEN 1
                  ELSE ticksBefore(i, Len(vehicles))),
                configuredStep),
           timeAfterTick)

\* Vehicle i is Charging at the end of a tick, and the horizon leaves the
\* time for it to charge to capacity
canStillFinish(i) ==
    /\ pc = "clock"
    /\ i \in Fleet
    /\ vehicles[i].currentState = "Charging"
    /\ RLe(RMul(R(ticksToFull(vehicles[i])), configuredStep), timeAfterTick)

isCharging(i) == i \in Fleet /\ vehicles[i].currentState = "Charging"

\* C39: no starvation.  A vehicle that waits in the queue is eventually
\* started charging, provided the horizon leaves the time for the charging
\* sessions before it; and a vehicle that is Charging eventually leaves
\* Charging, provided the horizon leaves the time to charge.
C39_NoStarvation ==
    /\ \A i \in 1..(MaxVehicles + 1) : canStillStart(i) ~> isCharging(i)
    /\ \A i \in 1..(MaxVehicles + 1) : canStillFinish(i) ~> ~isCharging(i)

\* C39 witness: a vehicle that waited in the queue while the charger was
\* taken has been started, after the session before it ended.
C39_Witness ==
    /\ pc = "clock"
    /\ \E k \in 1..Len(started) :
          /\ started[k].step = stepCount
          /\ enqueued[k].vehicle = started[k].vehicle
          /\ enqueued[k].step < started[k].step
          /\ \E l \in 1..(k - 1) :
                /\ started[l].vehicle # started[k].vehicle
                /\ vehicles[started[l].vehicle].currentState # "Charging"

====
